---- MODULE Spec2Model ----
(***************************************************************************)
(* flowgen diagram store: DiagramService (diagram_service.go) and          *)
(* HierarchyService (the hierarchy service file) over a directory of YAML  *)
(* files, one file per diagram.                                            *)
(***************************************************************************)
EXTENDS Integers, Sequences, FiniteSets, TLC

VARIABLES
    files,      \* the diagrams directory: file key -> file content or NoFile
    now,        \* the wall clock read by time.Now()
    last,       \* the last service call: its name and its error
    rootID,     \* GetHierarchyTree: the root the traversal was called with
    tpc,        \* GetHierarchyTree: "idle", "running" or "done"
    tstack,     \* GetHierarchyTree: the active buildHierarchyNode calls
    visited,    \* GetHierarchyTree: the visited map shared by all calls
    logged,     \* GetHierarchyTree: the child errors printed and skipped
    tresult,    \* GetHierarchyTree: what the top-level call returned
    subject,    \* Validate, marshal: the diagram a call is made on
    outcome,    \* Validate, marshal: what the calls made on the subject returned
    requests    \* LinkDiagrams calls in progress: one call's arguments, locals and position

vars == <<files, now, last, rootID, tpc, tstack, visited, logged, tresult, subject, outcome,
          requests>>
treeVars == <<rootID, tpc, tstack, visited, logged, tresult>>
pureVars == <<subject, outcome, requests>>

----------------------------------------------------------------------------
(* Bounds *)

\* The clock stops at MaxClock.
MaxClock == 1
\* The most child entries, over all children lists, of a store a traversal starts on.
MaxEdges == 3
\* The longest children list a client stores with Create or Update.
MaxChildren == 2
\* The most nodes, and the most edges, of a diagram Validate is called on.
MaxDiagramNodes == 2
MaxDiagramEdges == 2
\* The number of times a stored text is loaded and saved back.
MaxPasses == 2

----------------------------------------------------------------------------
(* Values *)

DiagramIds == {"a", "b", "c"}
\* The ids the CRUD calls are made with ("" is the missing id).
CrudIds == {"a", "b"}
\* A nil *string (FlowDiagram.Parent, FlowNode.DrillDown).
NilString == "<nil>"
Extensions == {".yaml", ".yml"}
Keys == DiagramIds \X Extensions
NoFile == [id |-> "<no file>"]
NoPath == <<"", "">>

ErrNil == "nil"
ErrDiagramNotFound == "diagram not found"
ErrValidation == "diagram validation failed"
ErrIDMismatch == "diagram id mismatch"
ErrParse == "failed to parse YAML"
ErrNodeNotFound == "node not found in parent diagram"
ErrNoParent == "diagram has no parent"
ErrCircular == "circular reference detected in hierarchy"

FlowNode(id, name, drillDown) == [id |-> id, name |-> name, drillDown |-> drillDown]
FlowEdge(id, name, from, to) == [id |-> id, name |-> name, from |-> from, to |-> to]
FlowDiagram(id, name, version, nodes, edges, parent, children, created, updated, filePath) ==
    [id |-> id, name |-> name, version |-> version, nodes |-> nodes, edges |-> edges,
     parent |-> parent, children |-> children, created |-> created, updated |-> updated,
     filePath |-> filePath]
NullDiagram == FlowDiagram("", "", "", <<>>, <<>>, NilString, <<>>, 0, 0, NoPath)

----------------------------------------------------------------------------
(* Validate *)

ValidationError(path, code) == [path |-> path, code |-> code]

\* The nodes loop without the duplicate branch.
RECURSIVE ValidateNodesNoDuplicates(_, _, _, _)
ValidateNodesNoDuplicates(nodes, i, nodeIDs, errs) ==
    IF i > Len(nodes) THEN [nodeIDs |-> nodeIDs, errs |-> errs]
    ELSE LET node == nodes[i]
             e1 == IF node.id = ""
                   THEN <<ValidationError(<<"nodes", i, "id">>, "MISSING_NODE_ID")>>
                   ELSE <<>>
             e2 == IF node.name = ""
                   THEN <<ValidationError(<<"nodes", i, "name">>, "MISSING_NODE_NAME")>>
                   ELSE <<>>
         IN ValidateNodesNoDuplicates(nodes, i + 1, nodeIDs \cup ({node.id} \ {""}),
                                      errs \o e1 \o e2)

RECURSIVE ValidateNodes(_, _, _, _)
ValidateNodes(nodes, i, nodeIDs, errs) ==
    IF i > Len(nodes) THEN [nodeIDs |-> nodeIDs, errs |-> errs]
    ELSE LET node == nodes[i]
             e1 == IF node.id = ""
                   THEN <<ValidationError(<<"nodes", i, "id">>, "MISSING_NODE_ID")>>
                   ELSE IF node.id \in nodeIDs
                   THEN <<ValidationError(<<"nodes", i, "id">>, "DUPLICATE_NODE_ID")>>
                   ELSE <<>>
             ids == IF node.id # "" THEN nodeIDs \cup {node.id} ELSE nodeIDs
             e2 == IF node.name = ""
                   THEN <<ValidationError(<<"nodes", i, "name">>, "MISSING_NODE_NAME")>>
                   ELSE <<>>
         IN ValidateNodes(nodes, i + 1, ids, errs \o e1 \o e2)

\* The edges loop looking up only the ends that are not empty.
RECURSIVE ValidateEdgesSkipEmpty(_, _, _, _, _)
ValidateEdgesSkipEmpty(edges, i, nodeIDs, edgeIDs, errs) ==
    IF i > Len(edges) THEN errs
    ELSE LET edge == edges[i]
             e1 == IF edge.id = ""
                   THEN <<ValidationError(<<"edges", i, "id">>, "MISSING_EDGE_ID")>>
                   ELSE IF edge.id \in edgeIDs
                   THEN <<ValidationError(<<"edges", i, "id">>, "DUPLICATE_EDGE_ID")>>
                   ELSE <<>>
             e2 == IF edge.from # "" /\ edge.from \notin nodeIDs
                   THEN <<ValidationError(<<"edges", i, "from">>, "INVALID_FROM_NODE")>>
                   ELSE <<>>
             e3 == IF edge.to # "" /\ edge.to \notin nodeIDs
                   THEN <<ValidationError(<<"edges", i, "to">>, "INVALID_TO_NODE")>>
                   ELSE <<>>
         IN ValidateEdgesSkipEmpty(edges, i + 1, nodeIDs, edgeIDs \cup ({edge.id} \ {""}),
                                   errs \o e1 \o e2 \o e3)

RECURSIVE ValidateEdges(_, _, _, _, _)
ValidateEdges(edges, i, nodeIDs, edgeIDs, errs) ==
    IF i > Len(edges) THEN errs
    ELSE LET edge == edges[i]
             e1 == IF edge.id = ""
                   THEN <<ValidationError(<<"edges", i, "id">>, "MISSING_EDGE_ID")>>
                   ELSE IF edge.id \in edgeIDs
                   THEN <<ValidationError(<<"edges", i, "id">>, "DUPLICATE_EDGE_ID")>>
                   ELSE <<>>
             ids == IF edge.id # "" THEN edgeIDs \cup {edge.id} ELSE edgeIDs
             e2 == IF edge.from \notin nodeIDs
                   THEN <<ValidationError(<<"edges", i, "from">>, "INVALID_FROM_NODE")>>
                   ELSE <<>>
             e3 == IF edge.to \notin nodeIDs
                   THEN <<ValidationError(<<"edges", i, "to">>, "INVALID_TO_NODE")>>
                   ELSE <<>>
         IN ValidateEdges(edges, i + 1, nodeIDs, ids, errs \o e1 \o e2 \o e3)

\* Validate that returns at the first error it finds.
ValidateFirstOnly(diagram) ==
    LET e1 == IF diagram.id = ""
              THEN <<ValidationError(<<"diagram", 0, "id">>, "MISSING_ID")>> ELSE <<>>
        e2 == IF diagram.name = ""
              THEN <<ValidationError(<<"diagram", 0, "name">>, "MISSING_NAME")>> ELSE <<>>
        e3 == IF diagram.version = ""
              THEN <<ValidationError(<<"diagram", 0, "version">>, "MISSING_VERSION")>> ELSE <<>>
        n == ValidateNodes(diagram.nodes, 1, {}, e1 \o e2 \o e3)
        errors == ValidateEdges(diagram.edges, 1, n.nodeIDs, {}, n.errs)
    IN [valid |-> Len(errors) = 0, errors |-> SubSeq(errors, 1, 1), warnings |-> <<>>]

Validate(diagram) ==
    LET e1 == IF diagram.id = ""
              THEN <<ValidationError(<<"diagram", 0, "id">>, "MISSING_ID")>> ELSE <<>>
        e2 == IF diagram.name = ""
              THEN <<ValidationError(<<"diagram", 0, "name">>, "MISSING_NAME")>> ELSE <<>>
        e3 == IF diagram.version = ""
              THEN <<ValidationError(<<"diagram", 0, "version">>, "MISSING_VERSION")>> ELSE <<>>
        n == ValidateNodes(diagram.nodes, 1, {}, e1 \o e2 \o e3)
        errors == ValidateEdges(diagram.edges, 1, n.nodeIDs, {}, n.errs)
    IN [valid |-> Len(errors) = 0, errors |-> errors, warnings |-> <<>>]

\* validateDiagram with the validation skipped.
validateDiagramSkipped(diagram) == ErrNil

validateDiagram(diagram) ==
    IF Validate(diagram).valid THEN ErrNil ELSE ErrValidation

----------------------------------------------------------------------------
(* The store: files of the diagrams directory *)

\* filepath.Join(DiagramsPath, id + ".yaml")
PathFor(id) == <<id, ".yaml">>

\* filepath.Walk visits the directory in lexical order of the file names.
KeyOrder ==
    << <<"a", ".yaml">>, <<"a", ".yml">>, <<"b", ".yaml">>, <<"b", ".yml">>,
       <<"c", ".yaml">>, <<"c", ".yml">> >>

\* The YAML document of a diagram: every field but FilePath (yaml:"-").
marshalDiagramYAML(diagram) ==
    [id |-> diagram.id, name |-> diagram.name, version |-> diagram.version,
     nodes |-> diagram.nodes, edges |-> diagram.edges, parent |-> diagram.parent,
     children |-> diagram.children, created |-> diagram.created,
     updated |-> diagram.updated]

\* yaml.Unmarshal into a zero FlowDiagram: FilePath stays empty.
yamlUnmarshal(doc) ==
    FlowDiagram(doc.id, doc.name, doc.version, doc.nodes, doc.edges, doc.parent,
                doc.children, doc.created, doc.updated, NoPath)

loadDiagramFromFile(fs, filePath) ==
    [yamlUnmarshal(fs[filePath]) EXCEPT !.filePath = filePath]

saveDiagramToFile(fs, diagram, filePath) ==
    [fs EXCEPT ![filePath] = marshalDiagramYAML(diagram)]

ListAll(fs) ==
    LET paths == SelectSeq(KeyOrder, LAMBDA k : fs[k] # NoFile)
    IN [i \in 1..Len(paths) |-> loadDiagramFromFile(fs, paths[i])]

\* The result of a service call: the directory after it, its error, the diagram returned.
Result(fs, err, diagram) == [files |-> fs, err |-> err, diagram |-> diagram]

\* GetByID: the first diagram of ListAll with the id (only that file is loaded here).
GetByID(fs, id) ==
    LET hits == {i \in 1..Len(KeyOrder) :
                   fs[KeyOrder[i]] # NoFile /\ fs[KeyOrder[i]].id = id}
    IN IF hits = {} THEN Result(fs, ErrDiagramNotFound, NullDiagram)
       ELSE Result(fs, ErrNil,
                   loadDiagramFromFile(fs, KeyOrder[CHOOSE i \in hits : \A j \in hits : i <= j]))

Create(fs, diagram, t) ==
    LET stamped == [diagram EXCEPT !.created = t, !.updated = t]
        verr == validateDiagram(stamped)
        filePath == PathFor(stamped.id)
        placed == [stamped EXCEPT !.filePath = filePath]
    IN IF verr # ErrNil THEN Result(fs, verr, NullDiagram)
       ELSE Result(saveDiagramToFile(fs, placed, filePath), ErrNil, placed)

\* Update that writes the diagram under its own id when nothing is stored yet.
UpdateUpsert(fs, diagram, t) ==
    LET found == GetByID(fs, diagram.id)
    IN IF found.err # ErrNil THEN Create(fs, diagram, t)
       ELSE LET kept == [diagram EXCEPT !.created = found.diagram.created,
                                        !.updated = t,
                                        !.filePath = found.diagram.filePath]
            IN IF validateDiagram(kept) # ErrNil
               THEN Result(fs, validateDiagram(kept), NullDiagram)
               ELSE Result(saveDiagramToFile(fs, kept, kept.filePath), ErrNil, kept)

\* Update that stamps created again instead of keeping the stored one.
UpdateRestamp(fs, diagram, t) ==
    LET found == GetByID(fs, diagram.id)
        kept == [diagram EXCEPT !.created = t, !.updated = t,
                                !.filePath = found.diagram.filePath]
    IN IF found.err # ErrNil THEN Result(fs, found.err, NullDiagram)
       ELSE IF validateDiagram(kept) # ErrNil
       THEN Result(fs, validateDiagram(kept), NullDiagram)
       ELSE Result(saveDiagramToFile(fs, kept, kept.filePath), ErrNil, kept)

Update(fs, diagram, t) ==
    LET found == GetByID(fs, diagram.id)
        kept == [diagram EXCEPT !.created = found.diagram.created,
                                !.updated = t,
                                !.filePath = found.diagram.filePath]
        verr == validateDiagram(kept)
    IN IF found.err # ErrNil THEN Result(fs, found.err, NullDiagram)
       ELSE IF verr # ErrNil THEN Result(fs, verr, NullDiagram)
       ELSE Result(saveDiagramToFile(fs, kept, kept.filePath), ErrNil, kept)

\* Delete that also clears the parent field of the stored diagrams naming the id.
DeleteCascade(fs, id) ==
    LET found == GetByID(fs, id)
        removed == [fs EXCEPT ![found.diagram.filePath] = NoFile]
    IN IF found.err # ErrNil THEN Result(fs, found.err, NullDiagram)
       ELSE Result([k \in Keys |->
                      IF removed[k] # NoFile /\ removed[k].parent = id
                      THEN [removed[k] EXCEPT !.parent = NilString]
                      ELSE removed[k]], ErrNil, NullDiagram)

Delete(fs, id) ==
    LET found == GetByID(fs, id)
    IN IF found.err # ErrNil THEN Result(fs, found.err, NullDiagram)
       ELSE Result([fs EXCEPT ![found.diagram.filePath] = NoFile], ErrNil, NullDiagram)

\* A YAML text: the document it denotes, or text that does not parse.
BadYAML == [id |-> "<bad yaml>"]

\* SaveYAMLByID that takes the id of the text without comparing it with the path's.
SaveYAMLByIDUnchecked(fs, id, yamlText) ==
    LET parsed == yamlUnmarshal(yamlText)
        diagram == IF parsed.id = "" THEN [parsed EXCEPT !.id = id] ELSE parsed
        verr == validateDiagram(diagram)
    IN IF yamlText = BadYAML THEN Result(fs, ErrParse, NullDiagram)
       ELSE IF verr # ErrNil THEN Result(fs, verr, NullDiagram)
       ELSE Result([fs EXCEPT ![PathFor(id)] = marshalDiagramYAML(diagram)], ErrNil, diagram)

\* SaveYAMLByID that leaves the id of the text as it is, empty or not.
SaveYAMLByIDNoDerive(fs, id, yamlText) ==
    IF yamlText = BadYAML THEN Result(fs, ErrParse, NullDiagram)
    ELSE LET diagram == yamlUnmarshal(yamlText)
             verr == validateDiagram(diagram)
         IN IF diagram.id # "" /\ diagram.id # id THEN Result(fs, ErrIDMismatch, NullDiagram)
            ELSE IF verr # ErrNil THEN Result(fs, verr, NullDiagram)
            ELSE Result([fs EXCEPT ![PathFor(id)] = marshalDiagramYAML(diagram)],
                        ErrNil, diagram)

SaveYAMLByID(fs, id, yamlText) ==
    IF yamlText = BadYAML THEN Result(fs, ErrParse, NullDiagram)
    ELSE LET parsed == yamlUnmarshal(yamlText)
             diagram == IF parsed.id = "" THEN [parsed EXCEPT !.id = id] ELSE parsed
             verr == validateDiagram(diagram)
         IN IF parsed.id # "" /\ parsed.id # id THEN Result(fs, ErrIDMismatch, NullDiagram)
            ELSE IF verr # ErrNil THEN Result(fs, verr, NullDiagram)
            ELSE Result([fs EXCEPT ![PathFor(id)] = marshalDiagramYAML(diagram)],
                        ErrNil, diagram)

----------------------------------------------------------------------------
(* HierarchyService *)

Contains(seq, x) == \E i \in 1..Len(seq) : seq[i] = x

\* The first node with the given id gets the drill-down; the others are left alone.
SetDrillDown(nodes, nodeID, childID) ==
    LET hits == {i \in 1..Len(nodes) : nodes[i].id = nodeID}
        first == CHOOSE i \in hits : \A j \in hits : i <= j
    IN [i \in 1..Len(nodes) |->
          IF hits # {} /\ i = first THEN [nodes[i] EXCEPT !.drillDown = childID]
          ELSE nodes[i]]

\* LinkDiagrams that saves without looking for the node.
LinkDiagramsUnchecked(fs, parentID, childID, nodeID, t) ==
    LET parent == GetByID(fs, parentID)
        child == GetByID(fs, childID)
        children == IF Contains(parent.diagram.children, childID)
                    THEN parent.diagram.children
                    ELSE Append(parent.diagram.children, childID)
        newParent == [parent.diagram EXCEPT
                         !.children = children,
                         !.nodes = SetDrillDown(parent.diagram.nodes, nodeID, childID)]
        saved == Update(fs, newParent, t)
    IN IF parent.err # ErrNil THEN Result(fs, parent.err, NullDiagram)
       ELSE IF child.err # ErrNil THEN Result(fs, child.err, NullDiagram)
       ELSE IF saved.err # ErrNil THEN saved
       ELSE Update(saved.files, [child.diagram EXCEPT !.parent = parentID], t)

\* LinkDiagrams without the childExists test: the child id is always appended.
LinkDiagramsAppending(fs, parentID, childID, nodeID, t) ==
    LET parent == GetByID(fs, parentID)
        child == GetByID(fs, childID)
        nodeFound == \E i \in 1..Len(parent.diagram.nodes) :
                        parent.diagram.nodes[i].id = nodeID
        nodes == IF nodeID # "" THEN SetDrillDown(parent.diagram.nodes, nodeID, childID)
                 ELSE parent.diagram.nodes
        newParent == [parent.diagram EXCEPT
                         !.children = Append(parent.diagram.children, childID),
                         !.nodes = nodes]
        newChild == [child.diagram EXCEPT !.parent = parentID]
        saved == Update(fs, newParent, t)
    IN IF parent.err # ErrNil THEN Result(fs, parent.err, NullDiagram)
       ELSE IF child.err # ErrNil THEN Result(fs, child.err, NullDiagram)
       ELSE IF nodeID # "" /\ ~nodeFound THEN Result(fs, ErrNodeNotFound, NullDiagram)
       ELSE IF saved.err # ErrNil THEN saved
       ELSE Update(saved.files, newChild, t)

LinkDiagrams(fs, parentID, childID, nodeID, t) ==
    LET parent == GetByID(fs, parentID)
        child == GetByID(fs, childID)
        children == IF Contains(parent.diagram.children, childID)
                    THEN parent.diagram.children
                    ELSE Append(parent.diagram.children, childID)
        nodeFound == \E i \in 1..Len(parent.diagram.nodes) :
                        parent.diagram.nodes[i].id = nodeID
        nodes == IF nodeID # "" THEN SetDrillDown(parent.diagram.nodes, nodeID, childID)
                 ELSE parent.diagram.nodes
        newParent == [parent.diagram EXCEPT !.children = children, !.nodes = nodes]
        newChild == [child.diagram EXCEPT !.parent = parentID]
        saved == Update(fs, newParent, t)
    IN IF parent.err # ErrNil THEN Result(fs, parent.err, NullDiagram)
       ELSE IF child.err # ErrNil THEN Result(fs, child.err, NullDiagram)
       ELSE IF nodeID # "" /\ ~nodeFound THEN Result(fs, ErrNodeNotFound, NullDiagram)
       ELSE IF saved.err # ErrNil THEN saved
       ELSE Update(saved.files, newChild, t)

\* UnlinkDiagrams without the loop that clears the drill-down references.
UnlinkDiagramsKeepingDrillDown(fs, parentID, childID, t) ==
    LET parent == GetByID(fs, parentID)
        child == GetByID(fs, childID)
        newChildren == SelectSeq(parent.diagram.children, LAMBDA c : c # childID)
        newParent == [parent.diagram EXCEPT !.children = newChildren]
        newChild == [child.diagram EXCEPT !.parent = NilString]
        saved == Update(fs, newParent, t)
    IN IF parent.err # ErrNil THEN Result(fs, parent.err, NullDiagram)
       ELSE IF child.err # ErrNil THEN Result(fs, child.err, NullDiagram)
       ELSE IF saved.err # ErrNil THEN saved
       ELSE Update(saved.files, newChild, t)

UnlinkDiagrams(fs, parentID, childID, t) ==
    LET parent == GetByID(fs, parentID)
        child == GetByID(fs, childID)
        newChildren == SelectSeq(parent.diagram.children, LAMBDA c : c # childID)
        nodes == [i \in 1..Len(parent.diagram.nodes) |->
                    IF parent.diagram.nodes[i].drillDown = childID
                    THEN [parent.diagram.nodes[i] EXCEPT !.drillDown = NilString]
                    ELSE parent.diagram.nodes[i]]
        newParent == [parent.diagram EXCEPT !.children = newChildren, !.nodes = nodes]
        newChild == [child.diagram EXCEPT !.parent = NilString]
        saved == Update(fs, newParent, t)
    IN IF parent.err # ErrNil THEN Result(fs, parent.err, NullDiagram)
       ELSE IF child.err # ErrNil THEN Result(fs, child.err, NullDiagram)
       ELSE IF saved.err # ErrNil THEN saved
       ELSE Update(saved.files, newChild, t)

\* GetChildren that hands on the error of the first child that does not load.
GetChildrenStrict(fs, parentID) ==
    LET parent == GetByID(fs, parentID)
        failed == SelectSeq(parent.diagram.children,
                            LAMBDA c : GetByID(fs, c).err # ErrNil)
    IN IF parent.err # ErrNil THEN [err |-> parent.err, children |-> <<>>]
       ELSE IF failed # <<>> THEN [err |-> GetByID(fs, failed[1]).err, children |-> <<>>]
       ELSE [err |-> ErrNil,
             children |-> [i \in 1..Len(parent.diagram.children) |->
                             GetByID(fs, parent.diagram.children[i]).diagram]]

\* GetChildren: the children that resolve, in the order of the parent's list.
GetChildren(fs, parentID) ==
    LET parent == GetByID(fs, parentID)
        resolved == SelectSeq(parent.diagram.children,
                              LAMBDA c : GetByID(fs, c).err = ErrNil)
    IN IF parent.err # ErrNil THEN [err |-> parent.err, children |-> <<>>]
       ELSE [err |-> ErrNil,
             children |-> [i \in 1..Len(resolved) |-> GetByID(fs, resolved[i]).diagram]]

GetParent(fs, childID) ==
    LET child == GetByID(fs, childID)
    IN IF child.err # ErrNil THEN child
       ELSE IF child.diagram.parent = NilString THEN Result(fs, ErrNoParent, NullDiagram)
       ELSE GetByID(fs, child.diagram.parent)

----------------------------------------------------------------------------
(* GetHierarchyTree: buildHierarchyNode, one step per call entry, child call and return *)

HierarchyNode(diagram, children) == [diagram |-> diagram, children |-> children]
NullNode == HierarchyNode(NullDiagram, <<>>)

\* An active call of buildHierarchyNode: its argument, where it stands, the node it
\* builds and the index of the next child of the range loop.
Frame(id) == [id |-> id, pc |-> "enter", node |-> NullNode, next |-> 1]

Top(stack) == stack[Len(stack)]

\* A return that hands a child's error on to the caller's caller instead of skipping it.
ReturnToCallerPropagating(stack, log, err, node) ==
    IF Len(stack) = 1 \/ err # ErrNil
    THEN [tstack |-> <<>>, tpc |-> "done", logged |-> log,
          tresult |-> [err |-> err, node |-> node]]
    ELSE LET caller == stack[Len(stack) - 1]
             resumed == [caller EXCEPT !.next = @ + 1,
                                       !.node.children = Append(@, node)]
         IN [tstack |-> Append(SubSeq(stack, 1, Len(stack) - 2), resumed),
             tpc |-> "running", logged |-> log,
             tresult |-> [err |-> ErrNil, node |-> NullNode]]

\* The top call returns (err, node): the top-level call ends the traversal; a child call
\* resumes its caller's loop, which appends the node or prints the error and continues.
ReturnToCaller(stack, log, err, node) ==
    IF Len(stack) = 1
    THEN [tstack |-> <<>>, tpc |-> "done", logged |-> log,
          tresult |-> [err |-> err, node |-> node]]
    ELSE LET caller == stack[Len(stack) - 1]
             resumed == IF err = ErrNil
                        THEN [caller EXCEPT !.next = @ + 1,
                                            !.node.children = Append(@, node)]
                        ELSE [caller EXCEPT !.next = @ + 1]
         IN [tstack |-> Append(SubSeq(stack, 1, Len(stack) - 2), resumed),
             tpc |-> "running",
             logged |-> IF err = ErrNil THEN log ELSE log \cup {<<Top(stack).id, err>>},
             tresult |-> [err |-> ErrNil, node |-> NullNode]]

\* The visited check of a call entry, never finding the id.
OnActivePathNever(seen, id) == FALSE

OnActivePath(seen, id) == id \in seen

GetHierarchyTree ==
    /\ tpc = "idle"
    /\ tpc' = "running"
    /\ tstack' = <<Frame(rootID)>>
    /\ visited' = {}
    /\ UNCHANGED <<files, now, last, rootID, logged, tresult, pureVars>>

BuildEnter ==
    /\ tpc = "running"
    /\ Top(tstack).pc = "enter"
    /\ LET id == Top(tstack).id
           found == GetByID(files, id)
           ret == IF OnActivePath(visited, id)
                  THEN ReturnToCaller(tstack, logged, ErrCircular, NullNode)
                  ELSE ReturnToCaller(tstack, logged, found.err, NullNode)
       IN IF OnActivePath(visited, id) \/ found.err # ErrNil
          THEN /\ tstack' = ret.tstack
               /\ tpc' = ret.tpc
               /\ logged' = ret.logged
               /\ tresult' = ret.tresult
               /\ visited' = visited \cup {id}
          ELSE /\ tstack' = [tstack EXCEPT ![Len(tstack)] =
                               [@ EXCEPT !.pc = "loop",
                                         !.node = HierarchyNode(found.diagram, <<>>)]]
               /\ visited' = visited \cup {id}
               /\ UNCHANGED <<tpc, logged, tresult>>
    /\ UNCHANGED <<files, now, last, rootID, pureVars>>

BuildRecurse ==
    /\ tpc = "running"
    /\ Top(tstack).pc = "loop"
    /\ Top(tstack).next <= Len(Top(tstack).node.diagram.children)
    /\ tstack' = Append(tstack, Frame(Top(tstack).node.diagram.children[Top(tstack).next]))
    /\ UNCHANGED <<files, now, last, rootID, tpc, visited, logged, tresult, pureVars>>

\* The return of a call that leaves its id in the visited map.
BuildReturnKeepingVisited ==
    /\ tpc = "running"
    /\ Top(tstack).pc = "loop"
    /\ Top(tstack).next > Len(Top(tstack).node.diagram.children)
    /\ LET ret == ReturnToCaller(tstack, logged, ErrNil, Top(tstack).node)
       IN /\ tstack' = ret.tstack
          /\ tpc' = ret.tpc
          /\ logged' = ret.logged
          /\ tresult' = ret.tresult
    /\ visited' = visited
    /\ UNCHANGED <<files, now, last, rootID, pureVars>>

BuildReturn ==
    /\ tpc = "running"
    /\ Top(tstack).pc = "loop"
    /\ Top(tstack).next > Len(Top(tstack).node.diagram.children)
    /\ LET ret == ReturnToCaller(tstack, logged, ErrNil, Top(tstack).node)
       IN /\ tstack' = ret.tstack
          /\ tpc' = ret.tpc
          /\ logged' = ret.logged
          /\ tresult' = ret.tresult
    /\ visited' = visited \ {Top(tstack).id}
    /\ UNCHANGED <<files, now, last, rootID, pureVars>>

----------------------------------------------------------------------------
(* The calls made on the services *)

Node1 == FlowNode("n1", "Step", NilString)
Edge1 == FlowEdge("e1", "Loop", "n1", "n1")

\* The diagrams Create and Update are called with. Per id: two that validate (with
\* different nodes and edges, and different values in the fields the service overwrites)
\* and two that do not (no name; a duplicate node id). And one without an id.
RequestDiagrams ==
    UNION { { FlowDiagram(id, "Flow", "1.0.0", <<>>, <<>>, NilString, <<>>, 0, 0, NoPath),
              FlowDiagram(id, "Flow", "1.0.0", <<Node1>>, <<Edge1>>, NilString, <<>>,
                          MaxClock, 0, PathFor("b")),
              FlowDiagram(id, "", "1.0.0", <<>>, <<>>, NilString, <<>>, 0, 0, NoPath),
              FlowDiagram(id, "Flow", "1.0.0", <<Node1, Node1>>, <<>>, NilString, <<>>,
                          0, 0, NoPath) } : id \in CrudIds }
    \cup { FlowDiagram("", "Flow", "1.0.0", <<>>, <<>>, NilString, <<>>, 0, 0, NoPath) }

\* The texts SaveYAMLByID is called with: documents with any id (or none) and any
\* timestamps, a document without a name, and a text that is no YAML.
RequestTexts ==
    { marshalDiagramYAML(FlowDiagram(id, "Flow", "1.0.0", <<>>, <<>>, NilString, <<>>, c, c, NoPath)) :
        id \in CrudIds \cup {""}, c \in {0, MaxClock} }
    \cup { marshalDiagramYAML(FlowDiagram("", "", "1.0.0", <<>>, <<>>, NilString, <<>>, 0, 0, NoPath)),
           BadYAML }

Call(op, err) == [op |-> op, err |-> err]
NoCall == Call("", ErrNil)

CallCreate ==
    \E d \in RequestDiagrams :
        LET r == Create(files, d, now)
        IN /\ files' = r.files
           /\ last' = Call("Create", r.err)
           /\ UNCHANGED <<now, treeVars, pureVars>>

CallUpdate ==
    \E d \in RequestDiagrams :
        LET r == Update(files, d, now)
        IN /\ files' = r.files
           /\ last' = Call("Update", r.err)
           /\ UNCHANGED <<now, treeVars, pureVars>>

CallDelete ==
    \E id \in CrudIds :
        LET r == Delete(files, id)
        IN /\ files' = r.files
           /\ last' = Call("Delete", r.err)
           /\ UNCHANGED <<now, treeVars, pureVars>>

CallSaveYAMLByID ==
    \E id \in CrudIds, text \in RequestTexts :
        LET r == SaveYAMLByID(files, id, text)
        IN /\ files' = r.files
           /\ last' = Call("SaveYAMLByID", r.err)
           /\ UNCHANGED <<now, treeVars, pureVars>>

CallLinkDiagrams(ids, nodeIDs) ==
    \E parentID \in ids, childID \in ids, nodeID \in nodeIDs :
        LET r == LinkDiagrams(files, parentID, childID, nodeID, now)
        IN /\ files' = r.files
           /\ last' = Call("LinkDiagrams", r.err)
           /\ UNCHANGED <<now, treeVars, pureVars>>

CallUnlinkDiagrams(ids) ==
    \E parentID \in ids, childID \in ids :
        LET r == UnlinkDiagrams(files, parentID, childID, now)
        IN /\ files' = r.files
           /\ last' = Call("UnlinkDiagrams", r.err)
           /\ UNCHANGED <<now, treeVars, pureVars>>

\* Time passes between calls.
Tick ==
    /\ now < MaxClock
    /\ now' = now + 1
    /\ UNCHANGED <<files, last, treeVars, pureVars>>

\* No call of Validate or of the YAML conversions is under way.
NoSubject == [kind |-> "none"]
NoOutcome == [kind |-> "none"]
\* No LinkDiagrams call is in progress.
NoRequest == [pc |-> "none"]
NoRequests == <<NoRequest, NoRequest>>
PureIdle ==
    /\ subject = NoSubject
    /\ outcome = NoOutcome
    /\ requests = NoRequests

TreeIdle ==
    /\ rootID = ""
    /\ tpc = "idle"
    /\ tstack = <<>>
    /\ visited = {}
    /\ logged = {}
    /\ tresult = [err |-> ErrNil, node |-> NullNode]

----------------------------------------------------------------------------
(* Spec: every call of the diagram service and of link/unlink, from an empty directory *)

Init ==
    /\ files = [k \in Keys |-> NoFile]
    /\ now = 0
    /\ last = NoCall
    /\ TreeIdle
    /\ PureIdle

Next ==
    \/ CallCreate
    \/ CallUpdate
    \/ CallDelete
    \/ CallSaveYAMLByID
    \/ CallLinkDiagrams(CrudIds, {""})
    \/ CallUnlinkDiagrams(CrudIds)
    \/ Tick

Spec == Init /\ [][Next]_vars

----------------------------------------------------------------------------
(* SpecHier: link and unlink on three stored diagrams without parent or children *)

StoredDiagram(id, nodes, children) ==
    FlowDiagram(id, "Flow", "1.0.0", nodes, <<>>, NilString, children, 0, 0, PathFor(id))

InitHier ==
    /\ files = [k \in Keys |->
                  IF k[2] = ".yaml"
                  THEN marshalDiagramYAML(
                         StoredDiagram(k[1], IF k[1] = "a" THEN <<Node1>> ELSE <<>>, <<>>))
                  ELSE NoFile]
    /\ now = 0
    /\ last = NoCall
    /\ TreeIdle
    /\ PureIdle

NextHier ==
    \/ CallLinkDiagrams(DiagramIds, {"", "n1"})
    \/ CallUnlinkDiagrams(DiagramIds)

SpecHier == InitHier /\ [][NextHier]_vars

----------------------------------------------------------------------------
(* SpecRefs: link and unlink on diagrams stored with any references. Create, Update  *)
(* and SaveYAMLByID store the parent, the children and the drill-downs a client     *)
(* sends as they are, so a stored diagram can name any id, its own included.        *)

RefNodeIds == {"", "n1", "n2"}

InitRefs ==
    /\ \E drillDown \in {NilString, "a", "b"}, parentA \in {NilString, "a"},
          parentB \in {NilString, "a"} :
         \E children \in UNION {[1..k -> CrudIds] : k \in 0..MaxChildren} :
           files = [k \in Keys |->
                      IF k = PathFor("a")
                      THEN marshalDiagramYAML(
                             [StoredDiagram("a", <<FlowNode("n1", "Step", drillDown)>>, children)
                                EXCEPT !.parent = parentA])
                      ELSE IF k = PathFor("b")
                      THEN marshalDiagramYAML(
                             [StoredDiagram("b", <<>>, <<>>) EXCEPT !.parent = parentB])
                      ELSE NoFile]
    /\ now \in 0..MaxClock
    /\ last = NoCall
    /\ TreeIdle
    /\ PureIdle

NextRefs ==
    \/ CallLinkDiagrams(DiagramIds, RefNodeIds)
    \/ CallUnlinkDiagrams(DiagramIds)

SpecRefs == InitRefs /\ [][NextRefs]_vars

----------------------------------------------------------------------------
(* SpecTree: one GetHierarchyTree call on a directory with any children lists *)

ChildLists(n) == UNION {[1..k -> DiagramIds] : k \in 0..n}
\* The entry of an id nothing is stored under.
Absent == <<"<absent>">>
Entries(n) == ChildLists(n) \cup {Absent}
Used(entry) == IF entry = Absent THEN 0 ELSE Len(entry)

TreeStore(entry) ==
    [k \in Keys |->
       IF k[2] = ".yaml" /\ entry[k[1]] # Absent
       THEN marshalDiagramYAML(StoredDiagram(k[1], <<>>, entry[k[1]]))
       ELSE NoFile]

InitTree ==
    /\ \E ea \in Entries(MaxEdges) :
         \E eb \in Entries(MaxEdges - Used(ea)) :
           \E ec \in Entries(MaxEdges - Used(ea) - Used(eb)) :
             files = TreeStore([id \in DiagramIds |->
                                  IF id = "a" THEN ea ELSE IF id = "b" THEN eb ELSE ec])
    /\ now = 0
    /\ last = NoCall
    /\ rootID \in DiagramIds
    /\ tpc = "idle"
    /\ tstack = <<>>
    /\ visited = {}
    /\ logged = {}
    /\ tresult = [err |-> ErrNil, node |-> NullNode]
    /\ PureIdle

NextTree ==
    \/ GetHierarchyTree
    \/ BuildEnter
    \/ BuildRecurse
    \/ BuildReturn

SpecTree == InitTree /\ [][NextTree]_vars

\* buildHierarchyNode runs to its return: no step of it waits on anything.
SpecTreeFair == SpecTree /\ WF_vars(NextTree)

----------------------------------------------------------------------------
(* The YAML text of a diagram: what yaml.v3 writes for the Go value and reads back.   *)
(* Go values keep what the text cannot: a nil slice against an empty one, and the     *)
(* monotonic clock reading of a time.Time.                                            *)

NilSlice == [isNil |-> TRUE, elems |-> <<>>]
Slice(elems) == [isNil |-> FALSE, elems |-> elems]
\* A time.Time: the instant, the zone offset of its location, a monotonic reading or not.
GoTime(instant, offset, mono) == [instant |-> instant, offset |-> offset, mono |-> mono]
Position(x, y) == [x |-> x, y |-> y]
GoNode(id, name, position, drillDown) ==
    [id |-> id, name |-> name, position |-> position, drillDown |-> drillDown]
GoDiagram(id, name, version, nodes, edges, parent, children, created, updated, filePath) ==
    [id |-> id, name |-> name, version |-> version, nodes |-> nodes, edges |-> edges,
     parent |-> parent, children |-> children, created |-> created, updated |-> updated,
     filePath |-> filePath]

\* yaml.Node kinds.
Scalar(text) == [kind |-> "scalar", text |-> text]
Number(n) == [kind |-> "number", n |-> n]
Timestamp(instant, offset) == [kind |-> "timestamp", instant |-> instant, offset |-> offset]
SequenceNode(items) == [kind |-> "sequence", items |-> items]
MappingNode(content) == [kind |-> "mapping", content |-> content]
KeyValue(key, style, value) == [key |-> key, style |-> style, value |-> value]

\* yaml.Marshal writes a key as a plain scalar unless YAML 1.1 reads it as a boolean.
MarshalKey(key, value) ==
    KeyValue(key, IF key = "y" THEN "double-quoted" ELSE "plain", value)
\* omitempty as it works on a plain string: an empty text is left out as well.
OmitEmptyText(empty, key, value) ==
    IF empty \/ value = [kind |-> "scalar", text |-> ""] THEN <<>>
    ELSE <<[key |-> key, style |-> "plain", value |-> value]>>

\* A field tagged omitempty: no key at all when the value is empty.
OmitEmpty(empty, key, value) == IF empty THEN <<>> ELSE <<MarshalKey(key, value)>>

yamlMarshalNode(node) ==
    MappingNode(
        << MarshalKey("id", Scalar(node.id)), MarshalKey("name", Scalar(node.name)),
           MarshalKey("position",
                      MappingNode(<< MarshalKey("x", Number(node.position.x)),
                                     MarshalKey("y", Number(node.position.y)) >>)) >>
        \o OmitEmpty(node.drillDown = NilString, "drillDown", Scalar(node.drillDown)))

yamlMarshalEdge(edge) ==
    MappingNode(<< MarshalKey("id", Scalar(edge.id)), MarshalKey("name", Scalar(edge.name)),
                   MarshalKey("from", Scalar(edge.from)), MarshalKey("to", Scalar(edge.to)) >>)

\* time.Time is written in RFC 3339 with its offset; the monotonic reading is not.
yamlMarshalTime(t) == Timestamp(t.instant, t.offset)

\* The bytes of a YAML document: its nodes with their styles, at an indent.
yamlEncode(root, indent) == [indent |-> indent, root |-> root]

\* yaml.Marshal(diagram): fields in declaration order, FilePath left out, indent 4.
yamlMarshal(diagram) ==
    yamlEncode(
        MappingNode(
            << MarshalKey("id", Scalar(diagram.id)), MarshalKey("name", Scalar(diagram.name)),
               MarshalKey("version", Scalar(diagram.version)),
               MarshalKey("nodes",
                          SequenceNode([i \in 1..Len(diagram.nodes.elems) |->
                                          yamlMarshalNode(diagram.nodes.elems[i])])),
               MarshalKey("edges",
                          SequenceNode([i \in 1..Len(diagram.edges.elems) |->
                                          yamlMarshalEdge(diagram.edges.elems[i])])) >>
            \o OmitEmpty(diagram.parent = NilString, "parent", Scalar(diagram.parent))
            \o OmitEmpty(Len(diagram.children.elems) = 0, "children",
                         SequenceNode([i \in 1..Len(diagram.children.elems) |->
                                         Scalar(diagram.children.elems[i])]))
            \o << MarshalKey("created", yamlMarshalTime(diagram.created)),
                  MarshalKey("updated", yamlMarshalTime(diagram.updated)) >>),
        4)

\* yaml.Unmarshal into a yaml.Node: the nodes with their styles.
yamlDecodeNode(bytes) == bytes.root

RECURSIVE normalizeMapKeyStyles(_)
normalizeMapKeyStyles(n) ==
    CASE n.kind = "mapping" ->
           MappingNode([i \in 1..Len(n.content) |->
                          KeyValue(n.content[i].key,
                                   IF n.content[i].key \in {"x", "y"} THEN "plain"
                                   ELSE n.content[i].style,
                                   normalizeMapKeyStyles(n.content[i].value))])
      [] n.kind = "sequence" ->
           SequenceNode([i \in 1..Len(n.items) |-> normalizeMapKeyStyles(n.items[i])])
      [] OTHER -> n

\* marshalDiagramYAML down to the bytes it returns.
marshalDiagramYAMLBytes(diagram) ==
    yamlEncode(normalizeMapKeyStyles(yamlDecodeNode(yamlMarshal(diagram))), 2)

HasKey(m, key) == \E i \in 1..Len(m.content) : m.content[i].key = key
ValueOf(m, key) == m.content[CHOOSE i \in 1..Len(m.content) : m.content[i].key = key].value
ScalarOf(m, key, zero) == IF HasKey(m, key) THEN ValueOf(m, key).text ELSE zero
\* A timestamp read back and converted to UTC.
yamlUnmarshalTimeUTC(m, key) ==
    IF HasKey(m, key) THEN GoTime(ValueOf(m, key).instant, "Z", FALSE)
    ELSE GoTime(0, "Z", FALSE)

\* A timestamp read back: the same instant in the zone of the written offset.
yamlUnmarshalTime(m, key) ==
    IF HasKey(m, key) THEN GoTime(ValueOf(m, key).instant, ValueOf(m, key).offset, FALSE)
    ELSE GoTime(0, "Z", FALSE)

yamlUnmarshalNode(m) ==
    GoNode(ScalarOf(m, "id", ""), ScalarOf(m, "name", ""),
           IF HasKey(m, "position")
           THEN Position(ValueOf(ValueOf(m, "position"), "x").n,
                         ValueOf(ValueOf(m, "position"), "y").n)
           ELSE Position(0, 0),
           ScalarOf(m, "drillDown", NilString))

yamlUnmarshalEdge(m) ==
    FlowEdge(ScalarOf(m, "id", ""), ScalarOf(m, "name", ""), ScalarOf(m, "from", ""),
             ScalarOf(m, "to", ""))

yamlUnmarshalNodes(m) ==
    IF HasKey(m, "nodes")
    THEN Slice([i \in 1..Len(ValueOf(m, "nodes").items) |->
                  yamlUnmarshalNode(ValueOf(m, "nodes").items[i])])
    ELSE NilSlice

yamlUnmarshalEdges(m) ==
    IF HasKey(m, "edges")
    THEN Slice([i \in 1..Len(ValueOf(m, "edges").items) |->
                  yamlUnmarshalEdge(ValueOf(m, "edges").items[i])])
    ELSE NilSlice

yamlUnmarshalChildren(m) ==
    IF HasKey(m, "children")
    THEN Slice([i \in 1..Len(ValueOf(m, "children").items) |->
                  ValueOf(m, "children").items[i].text])
    ELSE NilSlice

\* yaml.Unmarshal of the bytes into a zero FlowDiagram: a key that is absent leaves the
\* zero value (a nil slice, a nil pointer), a key with an empty list gives an empty slice.
yamlUnmarshalBytes(bytes) ==
    LET m == bytes.root
    IN GoDiagram(ScalarOf(m, "id", ""), ScalarOf(m, "name", ""), ScalarOf(m, "version", ""),
                 yamlUnmarshalNodes(m), yamlUnmarshalEdges(m),
                 ScalarOf(m, "parent", NilString), yamlUnmarshalChildren(m),
                 yamlUnmarshalTime(m, "created"), yamlUnmarshalTime(m, "updated"), NoPath)

\* loadDiagramFromFile on the bytes of a file.
loadDiagramFromBytes(bytes, filePath) ==
    [yamlUnmarshalBytes(bytes) EXCEPT !.filePath = filePath]

\* The diagram as Validate reads it.
AsFlowDiagram(g) ==
    FlowDiagram(g.id, g.name, g.version,
                [i \in 1..Len(g.nodes.elems) |->
                   FlowNode(g.nodes.elems[i].id, g.nodes.elems[i].name,
                            g.nodes.elems[i].drillDown)],
                g.edges.elems, g.parent, g.children.elems, g.created.instant,
                g.updated.instant, g.filePath)

\* SaveYAMLByID on the bytes of a text: the error and the bytes it writes to <id>.yaml.
SaveYAMLByIDBytes(id, yamlText) ==
    LET parsed == yamlUnmarshalBytes(yamlText)
        diagram == IF parsed.id = "" THEN [parsed EXCEPT !.id = id] ELSE parsed
        verr == validateDiagram(AsFlowDiagram(diagram))
    IN IF parsed.id # "" /\ parsed.id # id THEN [err |-> ErrIDMismatch, bytes |-> yamlText]
       ELSE IF verr # ErrNil THEN [err |-> verr, bytes |-> yamlText]
       ELSE [err |-> ErrNil, bytes |-> marshalDiagramYAMLBytes(diagram)]

----------------------------------------------------------------------------
(* SpecYAML: a diagram is written to its file, and the file is loaded and saved back *)

GoTimes == { GoTime(0, "Z", FALSE), GoTime(1, "+01:00", TRUE) }
GoNodes == { GoNode("n1", "Step", Position(0, 1), drillDown) : drillDown \in {NilString, "", "b"} }

\* The valid diagrams a service call holds in memory before it writes them.
GoDiagrams ==
    { GoDiagram("a", "Flow", "1.0.0", nodes, edges, parent, children, created, updated,
                PathFor("a")) :
        nodes \in {NilSlice, Slice(<<>>)} \cup {Slice(<<n>>) : n \in GoNodes},
        edges \in {NilSlice, Slice(<<FlowEdge("e1", "Loop", "n1", "n1")>>)},
        parent \in {NilString, "", "b"},
        children \in {NilSlice, Slice(<<>>), Slice(<<"b">>)},
        created \in GoTimes, updated \in GoTimes }

InitYAML ==
    /\ files = [k \in Keys |-> NoFile]
    /\ now = 0
    /\ last = NoCall
    /\ TreeIdle
    /\ subject \in {g \in GoDiagrams : Validate(AsFlowDiagram(g)).valid}
    /\ outcome = NoOutcome
    /\ requests = NoRequests

\* saveDiagramToFile writes the diagram.
CallSaveDiagramToFile ==
    /\ outcome = NoOutcome
    /\ outcome' = [kind |-> "yaml", first |-> marshalDiagramYAMLBytes(subject),
                   written |-> marshalDiagramYAMLBytes(subject), err |-> ErrNil,
                   passes |-> 0]
    /\ UNCHANGED <<files, now, last, treeVars, subject, requests>>

\* LoadYAMLByID reads the file and SaveYAMLByID is called with what it returned.
CallLoadThenSave ==
    /\ outcome.kind = "yaml"
    /\ outcome.passes < MaxPasses
    /\ LET r == SaveYAMLByIDBytes(subject.id, outcome.written)
       IN outcome' = [outcome EXCEPT !.written = r.bytes, !.err = r.err, !.passes = @ + 1]
    /\ UNCHANGED <<files, now, last, treeVars, subject, requests>>

NextYAML ==
    \/ CallSaveDiagramToFile
    \/ CallLoadThenSave

SpecYAML == InitYAML /\ [][NextYAML]_vars

----------------------------------------------------------------------------
(* SpecValidate: one Validate call on any diagram a client can send *)

ValidateNodeValues ==
    { FlowNode("n1", "Step", NilString), FlowNode("n2", "Step", NilString),
      FlowNode("", "Step", NilString), FlowNode("n1", "", NilString) }

\* Edges with and without an id, between declared, undeclared and empty node ids, and
\* one without a name.
ValidateEdgeValues ==
    { FlowEdge(id, "Flow", ends[1], ends[2]) :
        id \in {"", "e1"},
        ends \in { <<"n1", "n1">>, <<"n1", "n2">>, <<"", "n1">>, <<"n2", "">> } }
    \cup { FlowEdge("e1", "", "n1", "n2") }

ValidateHeads == { <<"d", "Flow", "1.0.0">>, <<"d", "", "1.0.0">>, <<"", "", "">> }

ValidateDiagrams ==
    { FlowDiagram(head[1], head[2], head[3], nodes, edges, NilString, <<>>, 0, 0, NoPath) :
        head \in ValidateHeads,
        nodes \in UNION {[1..k -> ValidateNodeValues] : k \in 0..MaxDiagramNodes},
        edges \in UNION {[1..k -> ValidateEdgeValues] : k \in 0..MaxDiagramEdges} }

InitValidate ==
    /\ files = [k \in Keys |-> NoFile]
    /\ now = 0
    /\ last = NoCall
    /\ TreeIdle
    /\ subject \in ValidateDiagrams
    /\ outcome = NoOutcome
    /\ requests = NoRequests

CallValidate ==
    /\ outcome = NoOutcome
    /\ outcome' = [kind |-> "validation", result |-> Validate(subject)]
    /\ UNCHANGED <<files, now, last, treeVars, subject, requests>>

NextValidate == CallValidate

SpecValidate == InitValidate /\ [][NextValidate]_vars

----------------------------------------------------------------------------
(* What the claims speak of *)

Stored(fs, id) == GetByID(fs, id).err = ErrNil
Doc(fs, id) == GetByID(fs, id).diagram
StoredIds(fs) == {id \in DiagramIds : Stored(fs, id)}
StoredCount(fs) == Cardinality({k \in Keys : fs[k] # NoFile})

\* The ids in the children list of a stored diagram.
ChildSet(fs, id) ==
    IF Stored(fs, id) THEN {Doc(fs, id).children[i] : i \in 1..Len(Doc(fs, id).children)}
    ELSE {}

RECURSIVE Closure(_, _, _)
Closure(fs, reached, n) ==
    IF n = 0 THEN reached
    ELSE Closure(fs, reached \cup UNION {ChildSet(fs, x) : x \in reached}, n - 1)

\* The ids reached from id by one or more steps through children lists.
Descendants(fs, id) == Closure(fs, ChildSet(fs, id), Cardinality(DiagramIds))

\* Some stored diagram reached from the root (the root included) reaches itself.
CycleReachable(fs, root) ==
    /\ Stored(fs, root)
    /\ \E x \in {root} \cup Descendants(fs, root) : x \in Descendants(fs, x)

RECURSIVE NoRepeatOnBranch(_, _)
NoRepeatOnBranch(node, path) ==
    /\ node.diagram.id \notin path
    /\ \A i \in 1..Len(node.children) :
         NoRepeatOnBranch(node.children[i], path \cup {node.diagram.id})

\* This step is the call LinkDiagrams(parentID, childID, nodeID).
LinkStep(parentID, childID, nodeID) ==
    LET r == LinkDiagrams(files, parentID, childID, nodeID, now)
    IN last' = Call("LinkDiagrams", r.err) /\ files' = r.files

\* This step is the call Create(d).
CreateStep(d) ==
    LET r == Create(files, d, now)
    IN last' = Call("Create", r.err) /\ files' = r.files

\* This step is the call Update(d).
UpdateStep(d) ==
    LET r == Update(files, d, now)
    IN last' = Call("Update", r.err) /\ files' = r.files

----------------------------------------------------------------------------
(* Claims on the hierarchy (SpecHier) *)

\* C1: after any sequence of link and unlink calls on diagrams that start without
\* parent and children, C is in P.children if and only if C.parent = P, for all stored
\* P and C.
C1_ParentChildrenAgree ==
    \A p \in StoredIds(files), c \in StoredIds(files) :
        Contains(Doc(files, p).children, c) <=> Doc(files, c).parent = p

\* C2: after LinkDiagrams(P, C, nodeID) returns success, for any stored P and C (equal
\* or not), GetParent(C) returns the diagram P and GetChildren(P) contains the diagram C.
C2_LinkThenParentAndChild ==
    [][\A p \in DiagramIds, c \in DiagramIds, n \in {"", "n1"} :
         (LinkStep(p, c, n) /\ last'.err = ErrNil) =>
            /\ GetParent(files', c).err = ErrNil
            /\ GetParent(files', c).diagram.id = p
            /\ \E i \in 1..Len(GetChildren(files', p).children) :
                  GetChildren(files', p).children[i].id = c]_vars

\* C5: in every state reached by link and unlink calls from a store without cycles, no
\* diagram id is reached from itself through children lists.
C5_NoCycle ==
    \A id \in DiagramIds : id \notin Descendants(files, id)

----------------------------------------------------------------------------
(* Claims on GetHierarchyTree (SpecTree, SpecTreeFair) *)

\* C3 as stated: when a cycle is reached from the root, GetHierarchyTree fails with the
\* circular reference error instead of returning a tree.
C3_CycleFailsTraversal ==
    (tpc = "done" /\ CycleReachable(files, rootID)) => tresult.err = ErrCircular

\* C3 as amended: when a cycle is reached from the root, the nested call that reaches an
\* id already on the active path fails with the circular reference error, its caller
\* prints and skips it, and GetHierarchyTree returns a tree in which no id repeats
\* along a branch.
C3_CycleCutNotFailed ==
    /\ (tpc = "running" /\ Top(tstack).pc = "enter" /\ Len(tstack) > 1
        /\ \E i \in 1..(Len(tstack) - 1) : tstack[i].id = Top(tstack).id)
          => Top(tstack).id \in visited
    /\ (tpc = "done" /\ CycleReachable(files, rootID)) =>
          /\ tresult.err = ErrNil
          /\ tresult.node.diagram.id = rootID
          /\ NoRepeatOnBranch(tresult.node, {})
          /\ \E id \in DiagramIds : <<id, ErrCircular>> \in logged

\* C3 witness: a traversal of a two-diagram cycle has returned a tree with a child in it.
C3_Witness ==
    /\ tpc = "done"
    /\ CycleReachable(files, rootID)
    /\ tresult.err = ErrNil
    /\ Len(tresult.node.children) = 1
    /\ <<rootID, ErrCircular>> \in logged

\* C4: GetHierarchyTree returns for every store, and the calls of buildHierarchyNode
\* active at once never exceed the number of stored ids plus one.
C4_Terminates ==
    /\ [](Len(tstack) <= Cardinality(StoredIds(files)) + 1)
    /\ (tpc = "running") ~> (tpc = "done")

\* C4 witness: a call was made on each of three stored diagrams and a fourth call is
\* active, on an id already on the path.
C4_Witness ==
    /\ Cardinality(StoredIds(files)) = 3
    /\ Len(tstack) = 4
    /\ Top(tstack).id = rootID

----------------------------------------------------------------------------
(* Claims on the diagram service (Spec) *)

\* The document SaveYAMLByID validates: the text's, under the path's id where the text
\* declares none.
TextDocument(id, text) ==
    IF yamlUnmarshal(text).id = "" THEN [yamlUnmarshal(text) EXCEPT !.id = id]
    ELSE yamlUnmarshal(text)

\* C6: every stored document passes Validate, and Create, Update and SaveYAMLByID called
\* with a document that fails Validate (or a text that does not parse) return an error
\* and leave the directory as it was.
C6_NoInvalidStored ==
    /\ \A k \in Keys : files[k] # NoFile => Validate(loadDiagramFromFile(files, k)).valid
    /\ \A d \in RequestDiagrams : ~Validate(d).valid =>
          /\ Create(files, d, now).err # ErrNil
          /\ Create(files, d, now).files = files
          /\ Update(files, d, now).err # ErrNil
          /\ Update(files, d, now).files = files
    /\ \A id \in CrudIds, text \in RequestTexts :
          (text = BadYAML \/ ~Validate(TextDocument(id, text)).valid) =>
             /\ SaveYAMLByID(files, id, text).err # ErrNil
             /\ SaveYAMLByID(files, id, text).files = files

\* C6 witness: Create has just refused a document with both diagrams stored.
C6_Witness ==
    /\ last = Call("Create", ErrValidation)
    /\ StoredCount(files) = 2

\* The error the claim expects of Create on a stored id.
ErrAlreadyExists == "diagram already exists"

\* C7: Create of a document whose id is already stored fails with AlreadyExists and
\* leaves the stored document, its created timestamp included, as it was.
C7_CreateExistingFails ==
    [][\A d \in RequestDiagrams :
         (CreateStep(d) /\ Stored(files, d.id) /\ Validate(d).valid) =>
            /\ last'.err = ErrAlreadyExists
            /\ files' = files]_vars

\* C8: no two stored documents carry the same id, and the document with id X is the
\* one stored under the key derived from X.
C8_IdsUnique ==
    /\ \A k \in Keys : files[k] # NoFile => k = PathFor(files[k].id)
    /\ \A k1 \in Keys, k2 \in Keys :
          (files[k1] # NoFile /\ files[k2] # NoFile /\ k1 # k2) => files[k1].id # files[k2].id
    /\ \A id \in StoredIds(files) : Doc(files, id).filePath = PathFor(id)

\* C8 witness: SaveYAMLByID has just written one of two stored documents.
C8_Witness ==
    /\ last = Call("SaveYAMLByID", ErrNil)
    /\ StoredCount(files) = 2

\* What a successful Update(d) leaves behind: created and the file path of the stored
\* document, updated at the current time, that one file rewritten with d's other fields
\* and every other file, and the number of files, as before.
UpdateFrame(fs, d, after, t) ==
    LET old == Doc(fs, d.id)
        new == Doc(after, d.id)
    IN /\ Stored(after, d.id)
       /\ new.created = old.created
       /\ new.filePath = old.filePath
       /\ new.updated = t
       /\ new = [d EXCEPT !.created = old.created, !.updated = t, !.filePath = old.filePath]
       /\ \A k \in Keys \ {old.filePath} : after[k] = fs[k]
       /\ StoredCount(after) = StoredCount(fs)

\* C9 as stated: a successful Update keeps created and the file path whatever the
\* request carried, stamps updated with the current time so that updated >= created,
\* rewrites only that file and keeps the number of stored documents.
C9_UpdateStampsAfterCreated ==
    [][\A d \in RequestDiagrams :
         (UpdateStep(d) /\ last'.err = ErrNil) =>
            /\ UpdateFrame(files, d, files', now)
            /\ Doc(files', d.id).updated >= Doc(files', d.id).created]_vars

\* C9 as amended: a successful Update keeps created and the file path whatever the
\* request carried, stamps updated with the current time, rewrites only that file and
\* keeps the number of stored documents; updated >= created follows when the stored
\* created is not later than the current time.
C9_UpdateKeepsCreated ==
    \A d \in RequestDiagrams :
        LET r == Update(files, d, now)
        IN r.err = ErrNil =>
             /\ UpdateFrame(files, d, r.files, now)
             /\ Doc(files, d.id).created <= now =>
                   Doc(r.files, d.id).updated >= Doc(r.files, d.id).created

\* C9 witness: Update has just rewritten a document created earlier.
C9_Witness ==
    /\ last = Call("Update", ErrNil)
    /\ StoredCount(files) = 2
    /\ \E k \in Keys : /\ files[k] # NoFile
                       /\ files[k].updated = now
                       /\ files[k].created < now
                       /\ files[k].nodes = <<Node1>>

\* C10: Update and Delete on an id no stored document carries fail with
\* ErrDiagramNotFound and leave the directory as it was.
C10_NotFoundLeavesStore ==
    /\ \A d \in RequestDiagrams : ~Stored(files, d.id) =>
          /\ Update(files, d, now).err = ErrDiagramNotFound
          /\ Update(files, d, now).files = files
    /\ \A id \in DiagramIds \cup {""} : ~Stored(files, id) =>
          /\ Delete(files, id).err = ErrDiagramNotFound
          /\ Delete(files, id).files = files

\* C10 witness: Update has just failed on an id that is not stored, next to a stored
\* document.
C10_Witness ==
    /\ last = Call("Update", ErrDiagramNotFound)
    /\ StoredCount(files) = 1

\* C11: a successful Delete(id) removes the file of the stored document with that id
\* and no other, so that GetByID(id) then fails with ErrDiagramNotFound; every other
\* file, with its parent field, children entries and drill-downs naming id, is as before.
C11_DeleteRemovesOnlyThat ==
    \A id \in DiagramIds :
        LET r == Delete(files, id)
            path == Doc(files, id).filePath
        IN r.err = ErrNil =>
             /\ GetByID(r.files, id).err = ErrDiagramNotFound
             /\ files[path] # NoFile /\ r.files[path] = NoFile
             /\ \A k \in Keys \ {path} : r.files[k] = files[k]
             /\ StoredCount(r.files) = StoredCount(files) - 1

\* C11 witness: Delete has just removed a diagram that a stored diagram still names as
\* its parent, or still lists among its children.
C11_Witness ==
    /\ last = Call("Delete", ErrNil)
    /\ \E id \in StoredIds(files) :
          \/ Doc(files, id).parent \in DiagramIds \ StoredIds(files)
          \/ \E c \in ChildSet(files, id) : ~Stored(files, c)

----------------------------------------------------------------------------
(* Claims on link and unlink over stored references (SpecRefs) *)

\* This step is the call UnlinkDiagrams(parentID, childID).
UnlinkStep(parentID, childID) ==
    LET r == UnlinkDiagrams(files, parentID, childID, now)
    IN last' = Call("UnlinkDiagrams", r.err) /\ files' = r.files

\* A diagram without what UnlinkDiagrams changes in the parent, and in the child.
ParentRest(d) ==
    [d EXCEPT !.children = <<>>, !.updated = 0,
              !.nodes = [i \in 1..Len(d.nodes) |-> [d.nodes[i] EXCEPT !.drillDown = NilString]]]
ChildRest(d) == [d EXCEPT !.parent = NilString, !.updated = 0]

\* What the call UnlinkDiagrams(p, c) leaves behind when it succeeds.
UnlinkPost(fs, after, p, c) ==
    /\ ~Contains(Doc(after, p).children, c)
    /\ \A i \in 1..Len(Doc(after, p).nodes) : Doc(after, p).nodes[i].drillDown # c
    /\ Doc(after, c).parent = NilString
    /\ IF p = c
       THEN ParentRest(ChildRest(Doc(after, p))) = ParentRest(ChildRest(Doc(fs, p)))
       ELSE /\ ParentRest(Doc(after, p)) = ParentRest(Doc(fs, p))
            /\ ChildRest(Doc(after, c)) = ChildRest(Doc(fs, c))

\* C12: after UnlinkDiagrams(P, C) returns success, for any stored P and C, the stored P
\* has no C among its children and no node whose drill-down is C, the stored C has no
\* parent, and every other field of P and C but updated is as before.
C12_UnlinkClears ==
    [][\A p \in DiagramIds, c \in DiagramIds :
         (UnlinkStep(p, c) /\ last'.err = ErrNil) => UnlinkPost(files, files', p, c)]_vars

\* C13: LinkDiagrams with a node id that is not empty and matches no node of the stored
\* parent fails with the node-not-found error, and with ErrDiagramNotFound when the
\* parent or the child is not stored; in both cases no file changes.
C13_FailedLinkWritesNothing ==
    \A p \in DiagramIds, c \in DiagramIds, n \in RefNodeIds :
        LET r == LinkDiagrams(files, p, c, n, now)
        IN /\ (~Stored(files, p) \/ ~Stored(files, c)) =>
                 r.err = ErrDiagramNotFound /\ r.files = files
           /\ (/\ Stored(files, p) /\ Stored(files, c) /\ n # ""
               /\ \A i \in 1..Len(Doc(files, p).nodes) : Doc(files, p).nodes[i].id # n) =>
                 r.err = ErrNodeNotFound /\ r.files = files

\* C13 witness: LinkDiagrams has just failed on the node id, after an earlier link had
\* set a parent.
C13_Witness ==
    /\ last = Call("LinkDiagrams", ErrNodeNotFound)
    /\ Doc(files, "b").parent = "b"

----------------------------------------------------------------------------
(* Claims on SaveYAMLByID (Spec) *)

\* C14: SaveYAMLByID(id, text) fails with the id-mismatch error when the text declares
\* an id that is not empty and not the target id; a text that declares no id is taken
\* under the target id; when the call succeeds the document in the target file carries
\* the target id and the text's other fields; every failing call (no YAML, id mismatch,
\* validation) leaves the directory as it was.
C14_SaveRawReconcilesId ==
    \A id \in CrudIds, text \in RequestTexts :
        LET r == SaveYAMLByID(files, id, text)
        IN /\ text = BadYAML => r.err = ErrParse
           /\ (text # BadYAML /\ text.id \notin {"", id}) => r.err = ErrIDMismatch
           /\ (text # BadYAML /\ text.id = "" /\ Validate([yamlUnmarshal(text) EXCEPT !.id = id]).valid)
                 => r.err = ErrNil
           /\ r.err = ErrNil =>
                 /\ r.files[PathFor(id)] = [text EXCEPT !.id = id]
                 /\ \A k \in Keys \ {PathFor(id)} : r.files[k] = files[k]
           /\ r.err # ErrNil => r.files = files

\* C14 witness: SaveYAMLByID has just refused a text for its id, next to a stored
\* document.
C14_Witness ==
    /\ last = Call("SaveYAMLByID", ErrIDMismatch)
    /\ StoredCount(files) = 1

----------------------------------------------------------------------------
(* Claims on Validate (SpecValidate) *)

\* Validate has returned on the subject.
Validated == outcome.kind = "validation"

ErrorSet(result) == {result.errors[k] : k \in 1..Len(result.errors)}
CountCode(result, code) ==
    Cardinality({k \in 1..Len(result.errors) : result.errors[k].code = code})

\* The node ids a diagram declares: the ids of its nodes that are not empty.
DeclaredNodeIds(d) == {d.nodes[i].id : i \in 1..Len(d.nodes)} \ {""}

\* The elements of a sequence whose id is not empty and stands at a smaller index too.
LaterOccurrences(elems) ==
    {i \in 1..Len(elems) : elems[i].id # "" /\ \E j \in 1..(i - 1) : elems[j].id = elems[i].id}

\* The violations of the rules Validate implements, rule by rule and element by element.
RuleViolations(d) ==
    {ValidationError(<<"diagram", 0, "id">>, "MISSING_ID") : x \in {d.id} \cap {""}}
    \cup {ValidationError(<<"diagram", 0, "name">>, "MISSING_NAME") : x \in {d.name} \cap {""}}
    \cup {ValidationError(<<"diagram", 0, "version">>, "MISSING_VERSION") :
             x \in {d.version} \cap {""}}
    \cup {ValidationError(<<"nodes", i, "id">>, "MISSING_NODE_ID") :
             i \in {j \in 1..Len(d.nodes) : d.nodes[j].id = ""}}
    \cup {ValidationError(<<"nodes", i, "id">>, "DUPLICATE_NODE_ID") :
             i \in LaterOccurrences(d.nodes)}
    \cup {ValidationError(<<"nodes", i, "name">>, "MISSING_NODE_NAME") :
             i \in {j \in 1..Len(d.nodes) : d.nodes[j].name = ""}}
    \cup {ValidationError(<<"edges", i, "id">>, "MISSING_EDGE_ID") :
             i \in {j \in 1..Len(d.edges) : d.edges[j].id = ""}}
    \cup {ValidationError(<<"edges", i, "id">>, "DUPLICATE_EDGE_ID") :
             i \in LaterOccurrences(d.edges)}
    \cup {ValidationError(<<"edges", i, "from">>, "INVALID_FROM_NODE") :
             i \in {j \in 1..Len(d.edges) : d.edges[j].from \notin DeclaredNodeIds(d)}}
    \cup {ValidationError(<<"edges", i, "to">>, "INVALID_TO_NODE") :
             i \in {j \in 1..Len(d.edges) : d.edges[j].to \notin DeclaredNodeIds(d)}}

\* The place of an error in the document: the diagram's own fields, then the nodes by
\* index, then the edges by index, and within an element id, name, version, from, to.
DocumentOrder(e) ==
    (CASE e.path[1] = "diagram" -> 0 [] e.path[1] = "nodes" -> 1000 [] OTHER -> 2000)
    + 10 * e.path[2]
    + (CASE e.path[3] = "id" -> 1 [] e.path[3] = "name" -> 2 [] e.path[3] = "version" -> 3
         [] e.path[3] = "from" -> 4 [] OTHER -> 5)

\* C15: for every diagram, valid is true exactly when errors is empty (warnings play no
\* part), and errors holds every violation of every rule Validate implements, one error
\* per rule and element, in document order, not only the first.
C15_ValidateExhaustive ==
    Validated =>
        LET r == outcome.result
        IN /\ r.valid <=> r.errors = <<>>
           /\ r.valid <=> RuleViolations(subject) = {}
           /\ ErrorSet(r) = RuleViolations(subject)
           /\ Len(r.errors) = Cardinality(RuleViolations(subject))
           /\ \A i \in 1..Len(r.errors), j \in 1..Len(r.errors) :
                  i < j => DocumentOrder(r.errors[i]) < DocumentOrder(r.errors[j])

\* C15 witness: Validate has reported errors on the diagram, on a node and on an edge of
\* one diagram.
C15_Witness ==
    /\ Validated
    /\ \A part \in {"diagram", "nodes", "edges"} :
          \E e \in ErrorSet(outcome.result) : e.path[1] = part
    /\ Len(outcome.result.errors) >= 6

\* C16: Validate reports DUPLICATE_NODE_ID (DUPLICATE_EDGE_ID) once for each node (edge)
\* whose non-empty id stands at a smaller index too and never for a first occurrence, so
\* these errors number the elements with a non-empty id less the distinct non-empty ids,
\* and valid is false when there is one.
C16_DuplicatePerLaterOccurrence ==
    Validated =>
        LET r == outcome.result
            Check(elems, part, code) ==
                /\ \A i \in 1..Len(elems) :
                      ValidationError(<<part, i, "id">>, code) \in ErrorSet(r)
                         <=> i \in LaterOccurrences(elems)
                /\ \A e \in ErrorSet(r) : e.code = code => e.path[1] = part /\ e.path[3] = "id"
                /\ CountCode(r, code) =
                      Cardinality({i \in 1..Len(elems) : elems[i].id # ""})
                      - Cardinality({elems[i].id : i \in 1..Len(elems)} \ {""})
                /\ CountCode(r, code) > 0 => ~r.valid
        IN /\ Check(subject.nodes, "nodes", "DUPLICATE_NODE_ID")
           /\ Check(subject.edges, "edges", "DUPLICATE_EDGE_ID")

\* C16 witness: Validate has reported one duplicate node id and one duplicate edge id in
\* a diagram with no other error.
C16_Witness ==
    /\ Validated
    /\ CountCode(outcome.result, "DUPLICATE_NODE_ID") = 1
    /\ CountCode(outcome.result, "DUPLICATE_EDGE_ID") = 1
    /\ Len(outcome.result.errors) = 2

\* C17: for every edge, Validate reports INVALID_FROM_NODE at its from exactly when the
\* from is not among the non-empty node ids of the diagram, and INVALID_TO_NODE at its to
\* likewise; an empty end, and an end naming a node whose id is empty, are not among them.
C17_EdgeEndsChecked ==
    Validated =>
        \A i \in 1..Len(subject.edges) :
            /\ ValidationError(<<"edges", i, "from">>, "INVALID_FROM_NODE")
                  \in ErrorSet(outcome.result)
                  <=> subject.edges[i].from \notin DeclaredNodeIds(subject)
            /\ ValidationError(<<"edges", i, "to">>, "INVALID_TO_NODE")
                  \in ErrorSet(outcome.result)
                  <=> subject.edges[i].to \notin DeclaredNodeIds(subject)

\* C17 witness: Validate has flagged the empty from of an edge in a diagram that has a
\* node with an empty id, and has accepted the to of that edge.
C17_Witness ==
    /\ Validated
    /\ \E n \in 1..Len(subject.nodes) : subject.nodes[n].id = ""
    /\ \E i \in 1..Len(subject.edges) :
          /\ subject.edges[i].from = ""
          /\ ValidationError(<<"edges", i, "from">>, "INVALID_FROM_NODE")
                \in ErrorSet(outcome.result)
          /\ ValidationError(<<"edges", i, "to">>, "INVALID_TO_NODE")
                \notin ErrorSet(outcome.result)

\* C18: a diagram in which the diagram, a node or an edge has an empty id or an empty
\* name gets at least one error for that element from Validate, and valid = false.
C18_EmptyIdOrNameReported ==
    Validated =>
        LET r == outcome.result
            Reported(elems, part) ==
                \A i \in 1..Len(elems) :
                    (elems[i].id = "" \/ elems[i].name = "") =>
                        /\ ~r.valid
                        /\ \E e \in ErrorSet(r) : e.path[1] = part /\ e.path[2] = i
        IN /\ (subject.id = "" \/ subject.name = "") =>
                 ~r.valid /\ \E e \in ErrorSet(r) : e.path[1] = "diagram"
           /\ Reported(subject.nodes, "nodes")
           /\ Reported(subject.edges, "edges")

----------------------------------------------------------------------------
(* Claims on self-referencing edges (Spec) *)

\* C19: Validate reports every edge whose from equals its to, so that no document with
\* such an edge is ever stored by Create, Update or SaveYAMLByID.
C19_SelfEdgeNeverStored ==
    \A k \in Keys : files[k] # NoFile =>
        \A i \in 1..Len(files[k].edges) : files[k].edges[i].from # files[k].edges[i].to

----------------------------------------------------------------------------
(* Claims on the YAML text (SpecYAML) *)

\* C20: for every valid diagram D the bytes marshalled from the diagram parsed from the
\* bytes marshalled from D are the bytes marshalled from D, and saving back the text
\* loaded from a file the store wrote leaves the file byte for byte as it was, however
\* often it is repeated.
C20_DiffStable ==
    outcome.kind = "yaml" =>
        /\ marshalDiagramYAMLBytes(yamlUnmarshalBytes(marshalDiagramYAMLBytes(subject)))
              = marshalDiagramYAMLBytes(subject)
        /\ outcome.err = ErrNil
        /\ outcome.written = outcome.first
        /\ outcome.first = marshalDiagramYAMLBytes(subject)

\* C20 witness: a file was loaded and saved back twice, for a diagram that does not read
\* back as it was in memory (an empty children slice, a monotonic clock reading) and
\* that has a node with its x and y keys.
C20_Witness ==
    /\ outcome.kind = "yaml"
    /\ outcome.passes = MaxPasses
    /\ subject.children = Slice(<<>>)
    /\ subject.created.mono
    /\ Len(subject.nodes.elems) = 1
    /\ yamlUnmarshalBytes(outcome.written) # [subject EXCEPT !.filePath = NoPath]

\* The data-model value of a diagram in memory: its sequences by their elements, its
\* timestamps by instant and offset.
DataModelValue(g) ==
    [g EXCEPT !.nodes = g.nodes.elems, !.edges = g.edges.elems,
              !.children = g.children.elems,
              !.created = <<g.created.instant, g.created.offset>>,
              !.updated = <<g.updated.instant, g.updated.offset>>]

----------------------------------------------------------------------------
(* Search and SearchNodes: a text is the sequence of its characters, a score is in   *)
(* tenths (1.0 is 10, 0.8 is 8, 0.6 is 6).                                            *)

stringsToLowerChar(c) == IF c = "S" THEN "s" ELSE IF c = "T" THEN "t" ELSE c
stringsToLower(text) == [i \in 1..Len(text) |-> stringsToLowerChar(text[i])]
stringsContains(text, substr) ==
    \E i \in 0..(Len(text) - Len(substr)) : SubSeq(text, i + 1, i + Len(substr)) = substr
stringsEqualFold(s, t) ==
    /\ Len(s) = Len(t)
    /\ \A i \in 1..Len(s) :
         \/ s[i] = t[i]
         \/ stringsToLowerChar(s[i]) = t[i]
         \/ s[i] = stringsToLowerChar(t[i])

\* A *string: nil, or the text it points to.
NilText == [isNil |-> TRUE, text |-> <<>>]
TextPtr(text) == [isNil |-> FALSE, text |-> text]

\* The fields of a node and of a diagram that the two searches read.
SearchableNode(id, name, type, description) ==
    [id |-> id, name |-> name, type |-> type, description |-> description]
SearchableDiagram(id, name, description, tags, nodes) ==
    [id |-> id, name |-> name, description |-> description, tags |-> tags, nodes |-> nodes]

SearchResult(diagram, score, matchType) ==
    [diagram |-> diagram, score |-> score, matchType |-> matchType]
NodeSearchResult(node, diagram, score, matchType) ==
    [node |-> node, diagramID |-> diagram.id, diagram |-> diagram, score |-> score,
     matchType |-> matchType]

Match(score, matchType) == [score |-> score, matchType |-> matchType]

\* The name and description tests of both searches, from score 0 and matchType "".
SearchNameAndDescription(entity, query) ==
    LET byName == IF stringsContains(stringsToLower(entity.name), query)
                  THEN Match(10, "name") ELSE Match(0, "")
    IN IF ~entity.description.isNil
          /\ stringsContains(stringsToLower(entity.description.text), query)
       THEN Match(byName.score + 8,
                  IF byName.matchType = "" THEN "description" ELSE byName.matchType)
       ELSE byName

\* The tag loop in which a matching tag takes the match type over.
RECURSIVE SearchTagsOverriding(_, _, _)
SearchTagsOverriding(tags, query, acc) ==
    IF tags = <<>> THEN acc
    ELSE SearchTagsOverriding(Tail(tags), query,
                              IF stringsContains(stringsToLower(Head(tags)), query)
                              THEN Match(acc.score + 6, "tag")
                              ELSE acc)

\* The tag loop of Search: every tag that contains the query adds 0.6.
RECURSIVE SearchTags(_, _, _)
SearchTags(tags, query, acc) ==
    IF tags = <<>> THEN acc
    ELSE SearchTags(Tail(tags), query,
                    IF stringsContains(stringsToLower(Head(tags)), query)
                    THEN Match(acc.score + 6,
                               IF acc.matchType = "" THEN "tag" ELSE acc.matchType)
                    ELSE acc)

\* The tag filter that is content with one required tag.
hasAnyTag(diagram, tags) ==
    \E i \in 1..Len(tags) :
        \E j \in 1..Len(diagram.tags) : stringsEqualFold(diagram.tags[j], tags[i])

\* The tag filter of Search: every required tag is a tag of the diagram.
hasAllTags(diagram, tags) ==
    \A i \in 1..Len(tags) :
        \E j \in 1..Len(diagram.tags) : stringsEqualFold(diagram.tags[j], tags[i])

\* Search on what ListAll returned: the loop over the diagrams from the i-th on.
RECURSIVE SearchLoop(_, _, _, _, _)
SearchLoop(diagrams, i, query, tags, results) ==
    IF i > Len(diagrams) THEN results
    ELSE LET diagram == diagrams[i]
             m == SearchTags(diagram.tags, query, SearchNameAndDescription(diagram, query))
         IN IF Len(tags) > 0 /\ ~hasAllTags(diagram, tags)
            THEN SearchLoop(diagrams, i + 1, query, tags, results)
            ELSE IF m.score > 0 \/ Len(tags) > 0
            THEN SearchLoop(diagrams, i + 1, query, tags,
                            Append(results, SearchResult(diagram, m.score, m.matchType)))
            ELSE SearchLoop(diagrams, i + 1, query, tags, results)

Search(diagrams, query, tags) == SearchLoop(diagrams, 1, stringsToLower(query), tags, <<>>)

\* The node loop that lets a type filter stand in for no score only when the query is
\* empty.
RECURSIVE SearchNodesOfScored(_, _, _, _, _)
SearchNodesOfScored(diagram, j, query, nodeType, results) ==
    IF j > Len(diagram.nodes) THEN results
    ELSE LET node == diagram.nodes[j]
             m == SearchNameAndDescription(node, query)
         IN IF nodeType # "" /\ node.type # nodeType
            THEN SearchNodesOfScored(diagram, j + 1, query, nodeType, results)
            ELSE IF m.score > 0
            THEN SearchNodesOfScored(diagram, j + 1, query, nodeType,
                     Append(results, NodeSearchResult(node, diagram, m.score, m.matchType)))
            ELSE SearchNodesOfScored(diagram, j + 1, query, nodeType, results)

\* SearchNodes: the inner loop over the nodes of one diagram from the j-th on.
RECURSIVE SearchNodesOf(_, _, _, _, _)
SearchNodesOf(diagram, j, query, nodeType, results) ==
    IF j > Len(diagram.nodes) THEN results
    ELSE LET node == diagram.nodes[j]
             m == SearchNameAndDescription(node, query)
         IN IF nodeType # "" /\ node.type # nodeType
            THEN SearchNodesOf(diagram, j + 1, query, nodeType, results)
            ELSE IF m.score > 0 \/ nodeType # ""
            THEN SearchNodesOf(diagram, j + 1, query, nodeType,
                     Append(results, NodeSearchResult(node, diagram, m.score, m.matchType)))
            ELSE SearchNodesOf(diagram, j + 1, query, nodeType, results)

\* SearchNodes: the outer loop over the diagrams from the i-th on.
RECURSIVE SearchNodesLoop(_, _, _, _, _)
SearchNodesLoop(diagrams, i, query, nodeType, results) ==
    IF i > Len(diagrams) THEN results
    ELSE SearchNodesLoop(diagrams, i + 1, query, nodeType,
                         SearchNodesOf(diagrams[i], 1, query, nodeType, results))

SearchNodes(diagrams, query, nodeType) ==
    SearchNodesLoop(diagrams, 1, stringsToLower(query), nodeType, <<>>)

----------------------------------------------------------------------------
(* SpecSearch: one Search or SearchNodes call over the diagrams ListAll returns *)

SearchTexts == { <<>>, <<"s">>, <<"S", "t">>, <<"t", "s">> }
SearchQueries == { <<>>, <<"S">>, <<"S", "T">>, <<"x">> }
SearchTagLists == { <<>>, <<<<"s">>>>, <<<<"s">>, <<"t", "s">>>> }
SearchTagFilters == { <<>>, <<<<"S">>>>, <<<<"S">>, <<"t", "S">>>> }
SearchNodeTypes == { "", "process", "decision" }
SearchNodeLists ==
    { <<>>,
      << SearchableNode("n1", <<"S", "t">>, "process", NilText),
         SearchableNode("n2", <<"x">>, "decision", TextPtr(<<"s">>)) >>,
      << SearchableNode("n1", <<"x">>, "decision", NilText) >> }

\* The diagrams of a directory in the order ListAll walks it; no two share an id.
SearchStores ==
    LET as == { SearchableDiagram("a", name, description, tags, nodes) :
                  name \in SearchTexts \ {<<>>},
                  description \in {NilText, TextPtr(<<"t", "s">>)},
                  tags \in SearchTagLists, nodes \in SearchNodeLists }
        bs == { SearchableDiagram("b", <<"x">>, description, <<<<"s">>>>,
                                  << SearchableNode("n1", <<"S">>, "decision", NilText) >>) :
                  description \in {NilText, TextPtr(<<"S">>)} }
    IN {<<>>} \cup { <<a>> : a \in as } \cup { <<a, b>> : a \in as, b \in bs }

InitSearch ==
    /\ files = [k \in Keys |-> NoFile]
    /\ now = 0
    /\ last = NoCall
    /\ TreeIdle
    /\ subject \in [diagrams : SearchStores, query : SearchQueries,
                    tags : SearchTagFilters, nodeType : SearchNodeTypes]
    /\ outcome = NoOutcome
    /\ requests = NoRequests

CallSearch ==
    /\ outcome = NoOutcome
    /\ outcome' = [kind |-> "search",
                   results |-> Search(subject.diagrams, subject.query, subject.tags)]
    /\ UNCHANGED <<files, now, last, treeVars, subject, requests>>

CallSearchNodes ==
    /\ outcome = NoOutcome
    /\ outcome' = [kind |-> "searchNodes",
                   results |-> SearchNodes(subject.diagrams, subject.query,
                                           subject.nodeType)]
    /\ UNCHANGED <<files, now, last, treeVars, subject, requests>>

NextSearch ==
    \/ CallSearch
    \/ CallSearchNodes

SpecSearch == InitSearch /\ [][NextSearch]_vars

\* The lower-cased text contains the lower-cased query.
TextMatches(text, query) == stringsContains(stringsToLower(text), stringsToLower(query))
DescriptionMatches(entity, query) ==
    ~entity.description.isNil /\ TextMatches(entity.description.text, query)
MatchingTags(diagram, query) ==
    Cardinality({ j \in 1..Len(diagram.tags) : TextMatches(diagram.tags[j], query) })
TextScore(entity, query) ==
    (IF TextMatches(entity.name, query) THEN 10 ELSE 0)
    + (IF DescriptionMatches(entity, query) THEN 8 ELSE 0)
DiagramScore(diagram, query) == TextScore(diagram, query) + 6 * MatchingTags(diagram, query)
\* Every required tag is, in lower case, a tag of the diagram in lower case.
TagsPresent(diagram, tags) ==
    \A i \in 1..Len(tags) :
        \E j \in 1..Len(diagram.tags) :
            stringsToLower(diagram.tags[j]) = stringsToLower(tags[i])
\* The positions of a list that a rule keeps, in their order.
RECURSIVE Ascending(_)
Ascending(positions) ==
    IF positions = {} THEN <<>>
    ELSE LET least == CHOOSE p \in positions : \A q \in positions : p <= q
         IN <<least>> \o Ascending(positions \ {least})

\* C22: every result of a diagram search carries score 1.0 for a name match plus 0.8
\* for a description match plus 0.6 for each matching tag, and the match type of the
\* first of name, description, tag that matched (empty when none did); with no tag
\* filter every diagram whose name contains the query in any case is returned with
\* match type "name" and a score of at least 1.0.
C22_SearchScoring ==
    outcome.kind = "search" =>
        /\ \A k \in 1..Len(outcome.results) :
             LET r == outcome.results[k]
             IN /\ r.score = DiagramScore(r.diagram, subject.query)
                /\ r.matchType =
                     IF TextMatches(r.diagram.name, subject.query) THEN "name"
                     ELSE IF DescriptionMatches(r.diagram, subject.query) THEN "description"
                     ELSE IF MatchingTags(r.diagram, subject.query) > 0 THEN "tag"
                     ELSE ""
        /\ subject.tags = <<>> =>
             \A i \in 1..Len(subject.diagrams) :
                TextMatches(subject.diagrams[i].name, subject.query) =>
                    \E k \in 1..Len(outcome.results) :
                        /\ outcome.results[k].diagram = subject.diagrams[i]
                        /\ outcome.results[k].matchType = "name"
                        /\ outcome.results[k].score >= 10

\* C22 witness: a query in upper case was found in the name, the description and two
\* tags of a diagram, which is returned as a name match with score 3.0, next to a
\* diagram returned as a description match.
C22_Witness ==
    /\ outcome.kind = "search"
    /\ subject.query = <<"S">>
    /\ subject.tags = <<>>
    /\ \E k \in 1..Len(outcome.results) :
          /\ outcome.results[k].matchType = "name"
          /\ outcome.results[k].score = 10 + 8 + 6 + 6
    /\ \E k \in 1..Len(outcome.results) : outcome.results[k].matchType = "description"

\* The diagrams a search with these tags keeps, by the rule of inclusion.
IncludedDiagrams ==
    { i \in 1..Len(subject.diagrams) :
        IF subject.tags # <<>> THEN TagsPresent(subject.diagrams[i], subject.tags)
        ELSE DiagramScore(subject.diagrams[i], subject.query) > 0 }

\* C23: with a tag filter the result holds exactly the diagrams that carry every
\* required tag in some case, whatever their score; without one, exactly the diagrams
\* with a positive score; the results are in ListAll order and no diagram is there twice.
C23_SearchInclusion ==
    outcome.kind = "search" =>
        /\ Len(outcome.results) = Cardinality(IncludedDiagrams)
        /\ \A k \in 1..Len(outcome.results) :
             outcome.results[k].diagram = subject.diagrams[Ascending(IncludedDiagrams)[k]]
        /\ \A k, l \in 1..Len(outcome.results) :
             outcome.results[k].diagram.id = outcome.results[l].diagram.id => k = l

\* C23 witness: of two diagrams the tag filter kept the one that carries both required
\* tags in another case, with score 0 and no match type.
C23_Witness ==
    /\ outcome.kind = "search"
    /\ Len(subject.tags) = 2
    /\ Len(subject.diagrams) = 2
    /\ Len(outcome.results) = 1
    /\ outcome.results[1].score = 0
    /\ outcome.results[1].matchType = ""

\* Every node of every diagram, in the order the two loops of SearchNodes visit them.
RECURSIVE NodesInOrder(_, _)
NodesInOrder(diagrams, i) ==
    IF i > Len(diagrams) THEN <<>>
    ELSE [j \in 1..Len(diagrams[i].nodes) |->
            [diagram |-> diagrams[i], node |-> diagrams[i].nodes[j]]]
         \o NodesInOrder(diagrams, i + 1)

\* The nodes a node search keeps, by the rule of inclusion.
IncludedNodes ==
    LET all == NodesInOrder(subject.diagrams, 1)
    IN { p \in 1..Len(all) :
           IF subject.nodeType # "" THEN all[p].node.type = subject.nodeType
           ELSE TextScore(all[p].node, subject.query) > 0 }

\* C24: with a node type the result holds exactly the nodes of that type across all
\* diagrams, whatever the query, each with a score of 0 or more; without one, exactly
\* the nodes with a positive score; the score is 1.0 for a name match plus 0.8 for a
\* description match.
C24_SearchNodesInclusion ==
    outcome.kind = "searchNodes" =>
        LET all == NodesInOrder(subject.diagrams, 1)
        IN /\ Len(outcome.results) = Cardinality(IncludedNodes)
           /\ \A k \in 1..Len(outcome.results) :
                LET r == outcome.results[k]
                    p == Ascending(IncludedNodes)[k]
                IN /\ r.node = all[p].node
                   /\ r.diagram = all[p].diagram
                   /\ r.diagramID = all[p].diagram.id
                   /\ r.score = TextScore(r.node, subject.query)
                   /\ r.score >= 0

\* C24 witness: the empty query with type "decision" returned the decision nodes of two
\* diagrams and left a process node out.
C24_Witness ==
    /\ outcome.kind = "searchNodes"
    /\ subject.query = <<>>
    /\ subject.nodeType = "decision"
    /\ Len(outcome.results) = 2
    /\ outcome.results[1].diagramID = "a"
    /\ outcome.results[2].diagramID = "b"
    /\ Len(subject.diagrams[1].nodes) = 2

----------------------------------------------------------------------------
(* SpecBestEffort: GetChildren calls beside a GetHierarchyTree traversal, over stores *)
(* whose children lists may name ids nothing is stored under                          *)

CallGetChildren ==
    /\ outcome = NoOutcome
    /\ \E parentID \in DiagramIds :
          LET r == GetChildren(files, parentID)
          IN outcome' = [kind |-> "children", parentID |-> parentID, err |-> r.err,
                         children |-> r.children]
    /\ UNCHANGED <<files, now, last, treeVars, subject, requests>>

NextBestEffort ==
    \/ GetHierarchyTree
    \/ BuildEnter
    \/ BuildRecurse
    \/ BuildReturn
    \/ CallGetChildren

SpecBestEffort == InitTree /\ [][NextBestEffort]_vars

\* The ids of a children list from the i-th on that are stored, in their order.
RECURSIVE ResolvedFrom(_, _, _)
ResolvedFrom(fs, children, i) ==
    IF i > Len(children) THEN <<>>
    ELSE (IF Stored(fs, children[i]) THEN <<children[i]>> ELSE <<>>)
         \o ResolvedFrom(fs, children, i + 1)

\* The tree under a stored id: a subtree for each child, in order, that is stored and
\* is not the id itself or one of the ids above it.
RECURSIVE BestEffortTree(_, _, _)
BestEffortTree(fs, id, above) ==
    LET kept == SelectSeq(ResolvedFrom(fs, Doc(fs, id).children, 1),
                          LAMBDA c : c \notin above \cup {id})
    IN HierarchyNode(Doc(fs, id),
                     [i \in 1..Len(kept) |-> BestEffortTree(fs, kept[i], above \cup {id})])

\* C25: GetChildren on a stored parent never fails and returns, in the order of the
\* parent's children list, the stored diagrams named there, skipping the ids that do
\* not load; GetHierarchyTree on a stored root never fails and returns the tree without
\* the children that do not load, the rest of each subtree kept.
C25_BestEffort ==
    /\ (outcome.kind = "children" /\ Stored(files, outcome.parentID)) =>
          /\ outcome.err = ErrNil
          /\ outcome.children =
               [i \in 1..Len(ResolvedFrom(files, Doc(files, outcome.parentID).children, 1)) |->
                  Doc(files, ResolvedFrom(files, Doc(files, outcome.parentID).children, 1)[i])]
    /\ (tpc = "done" /\ Stored(files, rootID)) =>
          /\ tresult.err = ErrNil
          /\ tresult.node = BestEffortTree(files, rootID, {})

\* C25 witness: the root names an id nothing is stored under and then a stored child
\* that names the same id; GetChildren returned the stored child alone and the tree
\* holds the root with that child.
C25_Witness ==
    /\ tpc = "done"
    /\ outcome.kind = "children"
    /\ outcome.parentID = rootID
    /\ Stored(files, rootID)
    /\ Len(Doc(files, rootID).children) = 2
    /\ ~Stored(files, Doc(files, rootID).children[1])
    /\ Len(outcome.children) = 1
    /\ Len(tresult.node.children) = 1
    /\ Doc(files, rootID).children[1] \in ChildSet(files, tresult.node.children[1].diagram.id)

\* The root is stored, no stored diagram reached from it reaches itself, and every id
\* reached from it is stored.
AcyclicAndResolved(fs, root) ==
    /\ Stored(fs, root)
    /\ ~CycleReachable(fs, root)
    /\ \A x \in Descendants(fs, root) : Stored(fs, x)

\* The tree with one node for every path through children lists from the id.
RECURSIVE PathTree(_, _)
PathTree(fs, id) ==
    HierarchyNode(Doc(fs, id),
                  [i \in 1..Len(Doc(fs, id).children) |->
                     PathTree(fs, Doc(fs, id).children[i])])

\* C26: when the children relation reached from the root has no cycle and every child
\* id is stored, the ids in the visited map are exactly those of the calls that are
\* building their subtree, GetHierarchyTree succeeds with one node for every path from
\* the root, nothing is skipped, and the visited map is empty when it returns.
C26_AcceptsDAG ==
    AcyclicAndResolved(files, rootID) =>
        /\ tpc = "running" =>
              visited = { tstack[i].id : i \in { j \in 1..Len(tstack) : tstack[j].pc = "loop" } }
        /\ tpc = "done" =>
              /\ tresult.err = ErrNil
              /\ tresult.node = PathTree(files, rootID)
              /\ logged = {}
              /\ visited = {}

\* C26 witness: the traversal returned a tree in which one diagram is the child of the
\* root and also the child of another child of the root.
C26_Witness ==
    /\ tpc = "done"
    /\ AcyclicAndResolved(files, rootID)
    /\ Len(tresult.node.children) = 2
    /\ Len(tresult.node.children[1].children) = 1
    /\ tresult.node.children[1].children[1].diagram.id = tresult.node.children[2].diagram.id
    /\ tresult.node.children[1].diagram.id # tresult.node.children[2].diagram.id

----------------------------------------------------------------------------
(* LinkDiagrams step by step: each call reads the parent, reads the child, writes the *)
(* parent and writes the child; a call may stop at any point, and the steps of two     *)
(* calls interleave (each HTTP request runs in its own goroutine, nothing is locked).  *)

\* A call that was made: its arguments, the store it was made on, its locals.
Request(parentID, childID, nodeID, entry) ==
    [pc |-> "called", at |-> "called", parentID |-> parentID, childID |-> childID,
     nodeID |-> nodeID, parent |-> NullDiagram, child |-> NullDiagram, err |-> ErrNil,
     entry |-> entry]

\* The call returns err from where it stands.
Returned(r, err) == [r EXCEPT !.pc = "returned", !.at = r.pc, !.err = err]

\* The calls that have not returned or stopped.
Running == { p \in DOMAIN requests :
               requests[p].pc \in {"called", "gotParent", "linked", "parentSaved"} }

LinkGetParent ==
    /\ \E p \in Running :
          LET r == requests[p]
              found == GetByID(files, r.parentID)
          IN /\ r.pc = "called"
             /\ requests' = [requests EXCEPT ![p] =
                               IF found.err # ErrNil THEN Returned(r, found.err)
                               ELSE [r EXCEPT !.pc = "gotParent", !.parent = found.diagram]]
    /\ UNCHANGED <<files, now, last, treeVars, subject, outcome>>

\* The child is read and both copies are changed in memory.
LinkGetChild ==
    /\ \E p \in Running :
          LET r == requests[p]
              found == GetByID(files, r.childID)
              children == IF Contains(r.parent.children, r.childID) THEN r.parent.children
                          ELSE Append(r.parent.children, r.childID)
              nodeFound == \E i \in 1..Len(r.parent.nodes) : r.parent.nodes[i].id = r.nodeID
              nodes == IF r.nodeID # "" THEN SetDrillDown(r.parent.nodes, r.nodeID, r.childID)
                       ELSE r.parent.nodes
          IN /\ r.pc = "gotParent"
             /\ requests' = [requests EXCEPT ![p] =
                               IF found.err # ErrNil THEN Returned(r, found.err)
                               ELSE IF r.nodeID # "" /\ ~nodeFound
                               THEN Returned(r, ErrNodeNotFound)
                               ELSE [r EXCEPT !.pc = "linked",
                                              !.parent = [@ EXCEPT !.children = children,
                                                                   !.nodes = nodes],
                                              !.child = [found.diagram EXCEPT
                                                           !.parent = r.parentID]]]
    /\ UNCHANGED <<files, now, last, treeVars, subject, outcome>>

\* The order of the two writes turned round: the child is written first.
LinkUpdateChildFirst ==
    /\ \E p \in Running :
          LET r == requests[p]
              saved == Update(files, r.child, now)
          IN /\ r.pc = "linked"
             /\ files' = saved.files
             /\ requests' = [requests EXCEPT ![p] =
                               IF saved.err # ErrNil THEN Returned(r, saved.err)
                               ELSE [r EXCEPT !.pc = "parentSaved", !.child = r.parent,
                                              !.parent = r.child]]
    /\ UNCHANGED <<now, last, treeVars, subject, outcome>>

LinkUpdateParent ==
    /\ \E p \in Running :
          LET r == requests[p]
              saved == Update(files, r.parent, now)
          IN /\ r.pc = "linked"
             /\ files' = saved.files
             /\ requests' = [requests EXCEPT ![p] =
                               IF saved.err # ErrNil THEN Returned(r, saved.err)
                               ELSE [r EXCEPT !.pc = "parentSaved"]]
    /\ UNCHANGED <<now, last, treeVars, subject, outcome>>

LinkUpdateChild ==
    /\ \E p \in Running :
          LET r == requests[p]
              saved == Update(files, r.child, now)
          IN /\ r.pc = "parentSaved"
             /\ files' = saved.files
             /\ requests' = [requests EXCEPT ![p] = Returned(r, saved.err)]
    /\ UNCHANGED <<now, last, treeVars, subject, outcome>>

\* The process is killed while a call is in progress: the call goes no further.
LinkStop ==
    /\ \E p \in Running :
          requests' = [requests EXCEPT ![p] =
                         [requests[p] EXCEPT !.pc = "stopped", !.at = requests[p].pc]]
    /\ UNCHANGED <<files, now, last, treeVars, subject, outcome>>

NextLinkSteps ==
    \/ LinkGetParent
    \/ LinkGetChild
    \/ LinkUpdateParent
    \/ LinkUpdateChild
    \/ LinkStop

\* Three diagram files as the directory may hold them: "a" with a node that drills down
\* to its child "c" or with no child, "b" with or without a parent, and with a name or,
\* edited by hand, without one.
LinkStores ==
    { [k \in Keys |->
         IF k = PathFor("a")
         THEN marshalDiagramYAML(
                StoredDiagram("a", <<FlowNode("n1", "Step", IF linked THEN "c" ELSE NilString)>>,
                              IF linked THEN <<"c">> ELSE <<>>))
         ELSE IF k = PathFor("b")
         THEN marshalDiagramYAML(
                [StoredDiagram("b", <<>>, <<>>) EXCEPT !.parent = parentB, !.name = nameB])
         ELSE IF k = PathFor("c")
         THEN marshalDiagramYAML(
                [StoredDiagram("c", <<>>, <<>>) EXCEPT
                   !.parent = IF linked THEN "a" ELSE NilString])
         ELSE NoFile] :
        linked \in BOOLEAN, parentB \in {NilString, "c"}, nameB \in {"Flow", ""} }

\* SpecLinkSteps: one LinkDiagrams call.
InitLinkSteps ==
    /\ files \in LinkStores
    /\ now \in 0..MaxClock
    /\ last = NoCall
    /\ TreeIdle
    /\ subject = NoSubject
    /\ outcome = NoOutcome
    /\ \E parentID \in DiagramIds, childID \in DiagramIds, nodeID \in RefNodeIds :
          requests = <<Request(parentID, childID, nodeID, files), NoRequest>>

SpecLinkSteps == InitLinkSteps /\ [][NextLinkSteps]_vars

\* SpecLinkRace: two LinkDiagrams calls at once.
InitLinkRace ==
    /\ files \in LinkStores
    /\ now \in 0..MaxClock
    /\ last = NoCall
    /\ TreeIdle
    /\ subject = NoSubject
    /\ outcome = NoOutcome
    /\ \E child1 \in {"b", "c"}, node1 \in {"", "n1"}, parent2 \in {"a", "b"},
          child2 \in {"b", "c"} :
          requests = <<Request("a", child1, node1, files), Request(parent2, child2, "", files)>>

SpecLinkRace == InitLinkRace /\ [][NextLinkSteps]_vars

\* The call went no further than its reads and its changes in memory.
BeforeWrites(r) ==
    \/ r.pc \in {"called", "gotParent", "linked"}
    \/ r.pc \in {"stopped", "returned"} /\ r.at \in {"called", "gotParent", "linked"}

\* The call wrote the parent and not the child: it stands between the writes, was
\* stopped there, or returned the error of the child's Update.
BetweenWrites(r) ==
    \/ r.pc = "parentSaved"
    \/ r.pc = "stopped" /\ r.at = "parentSaved"
    \/ r.pc = "returned" /\ r.at = "parentSaved" /\ r.err # ErrNil

\* C27: a LinkDiagrams call writes the parent before the child: up to the first write
\* the store is as the call found it; between the writes, and for good when the call
\* stops there or the child's Update fails, the parent's file alone has changed, the
\* child is in the parent's children list, the named node drills down to it, and the
\* child's parent field is the old one; the child's file changes only with the second
\* write, after which the child names the parent.
C27_LinkNotAtomic ==
    LET r == requests[1]
    IN /\ BeforeWrites(r) => files = r.entry
       /\ BetweenWrites(r) =>
             /\ \A k \in Keys \ {PathFor(r.parentID)} : files[k] = r.entry[k]
             /\ Contains(Doc(files, r.parentID).children, r.childID)
             /\ r.nodeID # "" =>
                   \E i \in 1..Len(Doc(files, r.parentID).nodes) :
                       /\ Doc(files, r.parentID).nodes[i].id = r.nodeID
                       /\ Doc(files, r.parentID).nodes[i].drillDown = r.childID
             /\ Doc(files, r.childID).parent = Doc(r.entry, r.childID).parent
       /\ (r.pc = "returned" /\ r.err = ErrNil) =>
             /\ Doc(files, r.childID).parent = r.parentID
             /\ \A k \in Keys \ {PathFor(r.parentID), PathFor(r.childID)} :
                   files[k] = r.entry[k]

\* C27 witness: the parent was written with the child in its list and a node drilling
\* down to it, the child's Update failed, and the child still names its old parent.
C27_Witness ==
    /\ requests[1].pc = "returned"
    /\ requests[1].at = "parentSaved"
    /\ requests[1].err = ErrValidation
    /\ requests[1].nodeID = "n1"
    /\ requests[1].parentID = "a"
    /\ Doc(files, requests[1].childID).parent = "c"
    /\ Contains(Doc(files, "a").children, requests[1].childID)
    /\ ~Contains(Doc(requests[1].entry, "a").children, requests[1].childID)

\* C28: when two LinkDiagrams calls on the same parent with different children run at
\* once and both return without error, the parent's children list holds both children.
C28_ConcurrentLinksBothKept ==
    ( /\ requests[1].pc = "returned" /\ requests[1].err = ErrNil
      /\ requests[2].pc = "returned" /\ requests[2].err = ErrNil
      /\ requests[1].parentID = requests[2].parentID
      /\ requests[1].childID # requests[2].childID )
    => /\ Contains(Doc(files, requests[1].parentID).children, requests[1].childID)
       /\ Contains(Doc(files, requests[1].parentID).children, requests[2].childID)

\* Every drill-down reference of every stored diagram names an id of that diagram's
\* children list.
DrillDownsResolve(fs) ==
    \A id \in StoredIds(fs) :
        \A i \in 1..Len(Doc(fs, id).nodes) :
            Doc(fs, id).nodes[i].drillDown # NilString =>
                Contains(Doc(fs, id).children, Doc(fs, id).nodes[i].drillDown)

\* C29: on a store in which every drill-down reference names a child of its diagram,
\* every LinkDiagrams call and every UnlinkDiagrams call, failed or not, leaves a store
\* in which they still do: also when the named node already drills down to another
\* child, and when parent and child are the same diagram.
C29_DrillDownPreserved ==
    DrillDownsResolve(files) =>
        /\ \A parentID \in DiagramIds, childID \in DiagramIds, nodeID \in RefNodeIds :
              DrillDownsResolve(LinkDiagrams(files, parentID, childID, nodeID, now).files)
        /\ \A parentID \in DiagramIds, childID \in DiagramIds :
              DrillDownsResolve(UnlinkDiagrams(files, parentID, childID, now).files)

\* C29 witness: a link call on a node that drilled down to another child has returned;
\* the node drills down to the new child and both are in the children list.
C29_Witness ==
    /\ last = Call("LinkDiagrams", ErrNil)
    /\ DrillDownsResolve(files)
    /\ Doc(files, "a").nodes[1].drillDown = "b"
    /\ Contains(Doc(files, "a").children, "a")
    /\ Contains(Doc(files, "a").children, "b")
    /\ Doc(files, "b").parent = "a"

\* The hierarchy fields of the stored diagrams: parent, children and the drill-down
\* reference of each node.
HierarchyFields(fs) ==
    [id \in DiagramIds |->
       LET found == GetByID(fs, id)
       IN IF found.err # ErrNil THEN <<>>
          ELSE << found.diagram.parent, found.diagram.children,
                  [i \in 1..Len(found.diagram.nodes) |-> found.diagram.nodes[i].drillDown] >>]

\* How many times the id stands in the children list of a stored diagram.
Occurrences(fs, parentID, childID) ==
    LET children == Doc(fs, parentID).children
    IN Cardinality({ i \in 1..Len(children) : children[i] = childID })

\* C30: a LinkDiagrams call repeated with the same arguments, at the latest time, returns
\* what the first call returned and leaves every parent field, children list and
\* drill-down reference as the first call left them; a link call adds the child to the
\* parent's children list only when it is not there.
C30_LinkIdempotent ==
    \A parentID \in DiagramIds, childID \in DiagramIds, nodeID \in RefNodeIds :
        LET first == LinkDiagrams(files, parentID, childID, nodeID, now)
            second == LinkDiagrams(first.files, parentID, childID, nodeID, MaxClock)
        IN /\ second.err = first.err
           /\ HierarchyFields(second.files) = HierarchyFields(first.files)
           /\ (first.err = ErrNil /\ parentID # childID) =>
                 LET before == Occurrences(files, parentID, childID)
                 IN Occurrences(first.files, parentID, childID)
                       = IF before = 0 THEN 1 ELSE before

\* C30 witness: a link call has returned on a parent that did not hold the child twice;
\* the child is in the list once, names the parent, and the node drills down to it.
C30_Witness ==
    /\ last = Call("LinkDiagrams", ErrNil)
    /\ Occurrences(files, "a", "b") = 1
    /\ Doc(files, "b").parent = "a"
    /\ Doc(files, "a").nodes[1].drillDown = "b"
    /\ Len(Doc(files, "a").children) = 1

====
